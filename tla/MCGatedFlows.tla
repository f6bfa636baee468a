---------------------------- MODULE MCGatedFlows ----------------------------
(* GatedFlows for TLC: a manager asks, a head and a director approve; workflows with each kind of gate. *)
EXTENDS GatedFlows, TLC

CONSTANTS asker, ann, bo

Roles == (asker :> "manager" @@ ann :> "head" @@ bo :> "director")
Chain == <<[role |-> "manager", max |-> 1], [role |-> "head", max |-> 2], [role |-> "director", max |-> NoLimit]>>
Amounts == <<3, 1>>
Versions == {
  <<"book", "approval_gate", "bill">>,
  <<"otp_gate", "book", "ask_approval", "bill", "notify", "flow.stop">>,
  <<"run_workflow", "ask_approval", "approval_gate", "bill">>}
Inner == <<"book", "notify">>

\* An edit or a fault, not both.  With two requests nothing but what always happens; with one, a card may be lost,
\* brought back, shown again and said yes to twice, after a fault at most, with three approval rows at most.
Sparse ==
  /\ edits' + faults' <= 1
  /\ opened' = 2 => edits' + faults' = 0 /\ (draft' # None => card' # None)
  /\ (\E r \in Requests : yes'[r] = 2 \/ r \in renewed') => opened' = 1 /\ edits' = 0
  /\ (\E r \in Requests : yes'[r] = 2) => Len(rows') <= 3
  /\ faults' > faults => \A r \in Requests : yes[r] < 2
  /\ LoseCard \/ ConfirmAgain => faults' = 0
  /\ LoseCard \/ Rehydrate \/ ConfirmAgain => opened' = 1 /\ edits' = 0
  /\ (\E r \in Requests : ClaimRunsOut(r)) =>
       opened' = 1 /\ Free(Asker) /\ card # None /\ card.stage = "awaiting_confirmation"
=============================================================================
