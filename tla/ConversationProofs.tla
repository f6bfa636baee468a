------------------------ MODULE ConversationProofs ------------------------
(***************************************************************************)
(* Proofs about Conversation, for any number of messages and requests.     *)
(***************************************************************************)
EXTENDS Conversation, TLAPS

\* A workflow runs for a card, and a photo goes onto a request.
InHand ==
  \A m \in Messages :
    /\ pc[m] = "run" => copy[m] # None
    /\ pc[m] \in {"attach", "copy"} => mine[m] # None

Typed == TypeOK /\ InHand

-----------------------------------------------------------------------------
(* Types *)

LEMMA Init_Typed == Init => Typed
BY TakesPhotosIsBoolean DEF Init, Typed, TypeOK, InHand, Cards, Stages

\* What upsert_draft leaves is a row of the table.
LEMMA UpsertTyped ==
  ASSUME TypeOK, NEW r \in Requests, NEW stage \in Stages, Upsert(r, stage)
  PROVE  draft' \in Cards
<1>1. Unused \subseteq Stamps
  BY DEF Unused
<1>2. CASE draft = None
  BY <1>1, <1>2 DEF Upsert, Cards
<1>3. CASE draft # None
  <2>1. draft \in Cards
    BY <1>3 DEF TypeOK
  <2>2. QED  BY <1>3, <2>1 DEF Upsert, Cards
<1>4. QED  BY <1>2, <1>3

\* ... of the request it was given.
LEMMA UpsertSays ==
  ASSUME TypeOK, NEW r, NEW stage, Upsert(r, stage)
  PROVE  draft'.req = r
<1>1. CASE draft = None
  BY <1>1 DEF Upsert
<1>2. CASE draft # None
  <2>1. draft \in [req : Requests, stage : Stages, made : Stamps]
    BY <1>2 DEF TypeOK, Cards
  <2>2. draft' = [draft EXCEPT !.req = r, !.stage = stage]
    BY <1>2 DEF Upsert
  <2>3. QED  BY <2>1, <2>2
<1>3. QED  BY <1>1, <1>2

LEMMA ArrivalTyped ==
  ASSUME Typed, NEW m \in Messages, Arrive(m) \/ TakeTurn(m) \/ GiveUp(m) \/ CheckLock(m) \/ Release(m)
  PROVE  Typed'
<1> USE DEF Typed, TypeOK, InHand, Goes, local, history, InTurn, AfterTurn
<1>1. CASE Arrive(m)
  BY <1>1 DEF Arrive
<1>2. CASE TakeTurn(m)
  BY <1>2 DEF TakeTurn
<1>3. CASE GiveUp(m)
  BY <1>3 DEF GiveUp
<1>4. CASE CheckLock(m)
  BY <1>4 DEF CheckLock, Forget
<1>5. CASE Release(m)
  BY <1>5 DEF Release
<1>6. QED  BY <1>1, <1>2, <1>3, <1>4, <1>5

LEMMA ReadingTyped ==
  ASSUME Typed, NEW m \in Messages, Read(m) \/ AfterReading(m)
  PROVE  Typed'
<1> USE DEF Typed, TypeOK, InHand, Goes, local, history, InTurn, AfterTurn, WriteSession
<1>1. CASE Read(m)
  BY <1>1 DEF Read
<1>2. CASE Cancel(m)
  BY <1>2 DEF Cancel, CloseDraft
<1>3. CASE Yes(m)
  BY <1>3 DEF Yes, Pending, Claim, Cards
<1>4. CASE Correct(m)
  <2>1. copy[m] \in Cards
    BY <1>4 DEF Correct, Pending
  <2>2. [copy[m] EXCEPT !.stage = "collecting"] \in Cards
    BY <2>1 DEF Cards, Stages
  <2>3. QED  BY <1>4, <2>2 DEF Correct
<1>5. CASE Expire(m)
  BY <1>5 DEF Expire, CloseDraft
<1>6. CASE WrongCode(m) \/ RightCode(m)
  BY <1>6 DEF WrongCode, RightCode, Pending
<1>7. CASE Retry(m)
  <2>1. copy[m].req \in Requests
    BY <1>7 DEF Retry, Pending, Cards
  <2>2. QED  BY <1>7, <2>1 DEF Retry
<1>8. CASE ToAgent(m)
  BY <1>8 DEF ToAgent
<1>9. QED  BY <1>1, <1>2, <1>3, <1>4, <1>5, <1>6, <1>7, <1>8 DEF AfterReading

\* A run that is cut short is counted.
LEMMA CutTyped ==
  ASSUME TypeOK, NEW m \in Messages
  PROVE  /\ CutShort(m) \in [Requests -> Nat]
         /\ \A r \in Requests : CutShort(m)[r] = cut[r] \/ CutShort(m)[r] = cut[r] + 1
<1>1. CASE pc[m] \in {"saved", "clear"} /\ copy[m] # None /\ ran[copy[m].req] > cut[copy[m].req]
  <2>1. copy[m].req \in Requests /\ cut \in [Requests -> Nat]
    BY <1>1 DEF TypeOK, Cards
  <2>2. CutShort(m) = [cut EXCEPT ![copy[m].req] = @ + 1]
    BY <1>1 DEF CutShort
  <2>3. QED  BY <2>1, <2>2
<1>2. CASE ~(pc[m] \in {"saved", "clear"} /\ copy[m] # None /\ ran[copy[m].req] > cut[copy[m].req])
  <2>1. CutShort(m) = cut /\ cut \in [Requests -> Nat]
    BY <1>2 DEF CutShort, TypeOK
  <2>2. QED  BY <2>1
<1>3. QED  BY <1>1, <1>2

LEMMA ExecutingTyped ==
  ASSUME Typed, NEW m \in Messages, Executing(m)
  PROVE  Typed'
<1> USE DEF Typed, TypeOK, InHand, Goes, local, history, InTurn, AfterTurn
<1>1. CASE Save(m)
  <2>1. copy[m].req \in Requests
    BY <1>1 DEF Save, Cards
  <2>2. QED  BY <1>1, <2>1 DEF Save
<1>2. CASE CloseSaved(m) \/ Fail(m)
  BY <1>2 DEF CloseSaved, Fail, CloseDraft
<1>3. CASE Refuse(m)
  BY <1>3 DEF Refuse
<1>4. CASE Raise(m)
  BY <1>4 DEF Raise, GiveClaimBack
<1>4a. CASE CloseRaises(m)
  <2>1. cut' \in [Requests -> Nat]
    BY <1>4a, CutTyped DEF CloseRaises
  <2>2. QED  BY <1>4a, <2>1 DEF CloseRaises, GiveClaimBack
<1>5. CASE Gate(m)
  <2>1. pc[m] = "run" /\ \E stage \in Stages : WriteSession(m, [copy[m] EXCEPT !.stage = stage])
    BY <1>5 DEF Gate, Stages
  <2>2. copy[m] \in Cards
    BY <2>1
  <2>3. session' \in Cards /\ copy' = [copy EXCEPT ![m] = session']
    BY <2>1, <2>2 DEF WriteSession, Cards
  <2>4. QED  BY <1>5, <2>3 DEF Gate
<1>6. CASE ClearSession(m)
  <2>1. told' \in [Requests -> {"nothing", "closed", "cleared"}]
    BY <1>6 DEF ClearSession, Closed
  <2>2. mine' \in [Messages -> Cards \cup {None}]
    BY <1>6 DEF ClearSession
  <2>3. QED  BY <1>6, <2>1, <2>2 DEF ClearSession, WriteSession
<1>7. CASE PopSession(m)
  BY <1>7 DEF PopSession, WriteSession
<1>8. QED  BY <1>1, <1>2, <1>3, <1>4, <1>4a, <1>5, <1>6, <1>7 DEF Executing

LEMMA AgentTyped ==
  ASSUME Typed, NEW m \in Messages, Tool(m) \/ Reply(m) \/ AgentRaises(m)
  PROVE  Typed'
<1> USE DEF Typed, TypeOK, InHand, Goes, local, history, InTurn, AfterTurn
<1>1. CASE Fill(m)
  <2>1. PICK r \in (IF mine[m] = None THEN {} ELSE {mine[m].req}) \cup (Requests \ opened) :
          /\ Upsert(r, "collecting")
          /\ opened' = opened \cup {r}
          /\ \E stamp \in (IF mine[m] = None THEN {} ELSE {mine[m].made}) \cup Unused :
               mine' = [mine EXCEPT ![m] = [req |-> r, stage |-> "collecting", made |-> stamp]]
    BY <1>1 DEF Fill
  <2>2. mine[m] # None => mine[m].req \in Requests /\ mine[m].made \in Stamps
    BY DEF Cards
  <2>3. r \in Requests
    BY <2>2
  <2>4. Unused \subseteq Stamps
    BY DEF Unused
  <2>5. draft' \in Cards
    BY <2>1, <2>3, UpsertTyped DEF Stages
  <2>6. \E card \in Cards : mine' = [mine EXCEPT ![m] = card]
    BY <2>1, <2>2, <2>3, <2>4 DEF Cards, Stages
  <2>7. QED  BY <1>1, <2>1, <2>3, <2>5, <2>6 DEF Fill
<1>2. CASE Confirm(m)
  <2>1. mine[m] \in Cards /\ Unused \subseteq Stamps
    BY <1>2 DEF Confirm, Unused
  <2>2. draft' \in Cards
    BY <1>2, <2>1, UpsertTyped DEF Confirm, Stages, Cards
  <2>3. PICK stamp \in {mine[m].made} \cup Unused :
          mine' = [mine EXCEPT ![m].stage = "awaiting_confirmation", ![m].made = stamp]
    BY <1>2 DEF Confirm
  <2>4. mine' = [mine EXCEPT ![m] = [mine[m] EXCEPT !.stage = "awaiting_confirmation", !.made = stamp]]
    BY <2>3
  <2>5. [mine[m] EXCEPT !.stage = "awaiting_confirmation", !.made = stamp] \in Cards
    BY <2>1 DEF Cards, Stages
  <2>6. QED  BY <1>2, <2>2, <2>4, <2>5 DEF Confirm
<1>3. CASE Drop(m)
  BY <1>3 DEF Drop, CloseDraft
<1>4. CASE Reply(m)
  <2>1. told' \in [Requests -> {"nothing", "closed", "cleared"}]
    BY <1>4 DEF Reply, Closed
  <2>2. QED  BY <1>4, <2>1 DEF Reply, WriteSession
<1>5. CASE AgentRaises(m)
  BY <1>5 DEF AgentRaises
<1>6. QED  BY <1>1, <1>2, <1>3, <1>4, <1>5 DEF Tool

LEMMA PhotosTyped ==
  ASSUME Typed, NEW m \in Messages, Photos(m)
  PROVE  Typed'
<1> USE DEF Typed, TypeOK, InHand, Goes, local, history, InTurn, AfterTurn, Forget
<1>1. CASE FindDraft(m)
  BY <1>1 DEF FindDraft
<1>2. CASE PutOnDraft(m)
  <2>1. mine[m] \in Cards
    BY <1>2 DEF PutOnDraft
  <2>2. draft' \in Cards
    BY <1>2, <2>1, UpsertTyped DEF PutOnDraft, Cards
  <2>3. QED  BY <1>2, <2>2 DEF PutOnDraft
<1>3. CASE CopySession(m)
  <2>1. CASE session # None /\ session.req = mine[m].req
    BY <1>3, <2>1 DEF CopySession
  <2>2. CASE ~(session # None /\ session.req = mine[m].req)
    BY <1>3, <2>2 DEF CopySession
  <2>3. QED  BY <2>1, <2>2
<1>4. CASE PutOnSession(m)
  BY <1>4 DEF PutOnSession
<1>5. QED  BY <1>1, <1>2, <1>3, <1>4 DEF Photos

LEMMA OutsideTyped ==
  ASSUME Typed,
         (\E m \in Messages : Crash(m)) \/ (\E c \in claims : ClaimRunsOut(c)) \/ LeaseRunsOut \/ Overstay
  PROVE  Typed'
<1> USE DEF Typed, TypeOK, InHand, local, history, InTurn, AfterTurn
<1>1. ASSUME NEW m \in Messages, Crash(m) PROVE Typed'
  <2>1. cut' \in [Requests -> Nat]
    BY <1>1, CutTyped DEF Crash
  <2>2. QED  BY <1>1, <2>1 DEF Crash, Forget
<1>2. ASSUME NEW c \in claims, ClaimRunsOut(c) PROVE Typed'
  BY <1>2 DEF ClaimRunsOut
<1>3. CASE LeaseRunsOut
  BY <1>3 DEF LeaseRunsOut
<1>4. CASE Overstay
  BY <1>4 DEF Overstay
<1>5. QED  BY <1>1, <1>2, <1>3, <1>4

LEMMA Step_Typed == Typed /\ [Next]_vars => Typed'
<1> SUFFICES ASSUME Typed, [Next]_vars PROVE Typed'
  OBVIOUS
<1>1. CASE UNCHANGED vars
  BY <1>1 DEF vars, local, Typed, TypeOK, InHand
<1>2. CASE Next
  <2>1. ASSUME NEW m \in Messages, Arrive(m) \/ TakeTurn(m) \/ GiveUp(m) \/ Forward(m) \/ Tool(m)
        PROVE  Typed'
    BY <2>1, ArrivalTyped, ReadingTyped, ExecutingTyped, AgentTyped, PhotosTyped DEF Forward
  <2>2. QED  BY <1>2, <2>1, OutsideTyped DEF Next
<1>3. QED  BY <1>1, <1>2

\* Type correctness.
THEOREM TypeCorrect == Spec => []TypeOK
<1>1. Typed => TypeOK
  BY DEF Typed
<1>2. QED  BY <1>1, Init_Typed, Step_Typed, PTL DEF Spec

-----------------------------------------------------------------------------
(* One turn at a time *)

Within(m) == pc[m] \in InTurn

\* Every step inside a turn keeps the lock and the turn as they are, or ends the turn.
LEMMA ForwardKeeps ==
  ASSUME Typed, NEW m \in Messages, Forward(m) \/ Tool(m)
  PROVE  /\ UNCHANGED overstays
         /\ \A n \in Messages : n # m => pc'[n] = pc[n]
         /\ Within(m) \/ ~Within(m)'
         /\ UNCHANGED lock \/ Release(m)
<1> USE DEF Typed, TypeOK, Goes, Within, InTurn, local, history
<1>1. CASE Read(m) \/ AfterReading(m)
  BY <1>1 DEF Read, AfterReading, Cancel, Yes, Correct, Expire, WrongCode, RightCode, Retry, ToAgent
<1>2. CASE Executing(m)
  BY <1>2 DEF Executing, Save, CloseSaved, CloseRaises, Fail, Refuse, Raise, Gate, ClearSession, PopSession
<1>3. CASE Reply(m) \/ AgentRaises(m) \/ CheckLock(m) \/ Release(m)
  BY <1>3 DEF Reply, AgentRaises, CheckLock, Release
<1>4. CASE Photos(m)
  BY <1>4 DEF Photos, FindDraft, PutOnDraft, CopySession, PutOnSession
<1>5. CASE Tool(m)
  BY <1>5 DEF Tool, Fill, Confirm, Drop
<1>6. QED  BY <1>1, <1>2, <1>3, <1>4, <1>5 DEF Forward

LEMMA Init_OneTurn == Init => OneTurn
BY DEF Init, OneTurn, InTurn

LEMMA Step_OneTurn == Typed /\ OneTurn /\ [Next]_vars => OneTurn'
<1> SUFFICES ASSUME Typed, OneTurn, [Next]_vars, overstays' = 0, NEW n \in Messages, Within(n)'
             PROVE  lock' = n
  BY DEF OneTurn, Within
<1>0. Free \notin Messages
  BY MessagesAreNumbers DEF Free
<1>1. CASE UNCHANGED vars
  BY <1>1 DEF vars, OneTurn, Within
<1>2. ASSUME NEW m \in Messages, Arrive(m) \/ GiveUp(m) PROVE lock' = n
  BY <1>2 DEF Arrive, GiveUp, Goes, history, Within, InTurn, OneTurn, Typed, TypeOK
<1>3. ASSUME NEW m \in Messages, TakeTurn(m) PROVE lock' = n
  BY <1>0, <1>3 DEF TakeTurn, Goes, history, Within, InTurn, OneTurn, Typed, TypeOK
<1>4. ASSUME NEW m \in Messages, Forward(m) \/ Tool(m) PROVE lock' = n
  <2>1. overstays = 0 /\ Within(n) /\ lock = n
    BY <1>4, ForwardKeeps DEF OneTurn, Within
  <2>2. CASE UNCHANGED lock
    BY <2>1, <2>2
  <2>3. CASE Release(m)
    <3>1. Within(m) /\ ~Within(m)'
      BY <2>3 DEF Release, Goes, Within, InTurn, Typed, TypeOK
    <3>2. lock = m
      BY <2>1, <3>1 DEF OneTurn, Within
    <3>3. QED  BY <2>1, <3>1, <3>2
  <2>4. QED  BY <1>4, <2>2, <2>3, ForwardKeeps
<1>5. ASSUME NEW m \in Messages, Crash(m) PROVE lock' = n
  BY <1>5 DEF Crash, Within, InTurn, OneTurn, Typed, TypeOK
<1>6. ASSUME NEW c \in claims, ClaimRunsOut(c) PROVE lock' = n
  BY <1>6 DEF ClaimRunsOut, history, Within, OneTurn
<1>7. CASE LeaseRunsOut
  BY <1>7 DEF LeaseRunsOut, history, Within, OneTurn
<1>8. CASE Overstay
  BY <1>8 DEF Overstay, Typed, TypeOK
<1>9. QED  BY <1>1, <1>2, <1>3, <1>4, <1>5, <1>6, <1>7, <1>8 DEF Next

\* A person's messages go through one at a time while no turn outlasts its lease, however many
\* messages there are and however many turns die.
THEOREM OneTurnHolds == Spec => []OneTurn
<1> USE Init_Typed, Step_Typed, Init_OneTurn, Step_OneTurn
<1>1. Init => Typed /\ OneTurn
  OBVIOUS
<1>2. (Typed /\ OneTurn) /\ [Next]_vars => (Typed /\ OneTurn)'
  OBVIOUS
<1>3. QED  BY <1>1, <1>2, PTL DEF Spec

-----------------------------------------------------------------------------
(* A card is carried out by one turn at a time *)

\* A turn that carries out a card holds its claim.
ClaimHeld == \A m \in Messages : Confirmed(m) => Claim(m) \in claims

OneCarrier == OneRunner /\ ClaimHeld

LEMMA Init_OneCarrier == Init => OneCarrier
BY DEF Init, OneCarrier, OneRunner, ClaimHeld, Confirmed

\* A step that starts no workflow, keeps the copies of those that run and the claims they hold.
LEMMA CarrierKept ==
  ASSUME OneCarrier,
         \A n \in Messages : Confirmed(n)' => Confirmed(n) /\ copy'[n] = copy[n] /\ Claim(n) \in claims'
  PROVE  OneCarrier'
BY DEF OneCarrier, OneRunner, ClaimHeld, Claim

\* Only the last step of a run may touch the copy of a turn that is there.
LEMMA Elsewhere ==
  ASSUME Typed, NEW m \in Messages, pc'[m] \notin {"run", "saved"}, claims \subseteq claims',
         \A n \in Messages : n # m => pc'[n] = pc[n] /\ copy'[n] = copy[n],
         OneCarrier
  PROVE  OneCarrier'
BY CarrierKept DEF Confirmed, Pending, OneCarrier, ClaimHeld

LEMMA Step_OneCarrier == Typed /\ OneCarrier /\ [Next]_vars => OneCarrier'
<1> SUFFICES ASSUME Typed, OneCarrier, [Next]_vars PROVE OneCarrier'
  OBVIOUS
<1>1. CASE UNCHANGED vars
  BY <1>1, CarrierKept DEF vars, local, OneCarrier, ClaimHeld, Confirmed, Pending
<1>2. ASSUME NEW m \in Messages,
             \/ Arrive(m) \/ TakeTurn(m) \/ GiveUp(m) \/ CheckLock(m) \/ Release(m) \/ Read(m)
             \/ Cancel(m) \/ Correct(m) \/ Expire(m) \/ WrongCode(m) \/ Retry(m) \/ ToAgent(m)
      PROVE OneCarrier'
  <2> USE DEF Typed, TypeOK, Goes, local, WriteSession, Forget
  <2>1. CASE Arrive(m) \/ TakeTurn(m) \/ GiveUp(m) \/ CheckLock(m) \/ Release(m)
    BY <2>1, Elsewhere DEF Arrive, TakeTurn, GiveUp, CheckLock, Release
  <2>2. CASE Read(m) \/ Cancel(m) \/ Correct(m) \/ Expire(m)
    BY <2>2, Elsewhere DEF Read, Cancel, Correct, Expire
  <2>3. CASE WrongCode(m) \/ Retry(m) \/ ToAgent(m)
    BY <2>3, Elsewhere DEF WrongCode, Retry, ToAgent
  <2>4. QED  BY <1>2, <2>1, <2>2, <2>3
<1>3. ASSUME NEW m \in Messages, Yes(m) PROVE OneCarrier'
  <2> USE DEF Yes, Goes, local, Typed, TypeOK
  <2>1. CASE Claim(m) \in claims
    BY <1>3, <2>1, Elsewhere
  <2>2. CASE Claim(m) \notin claims
    <3>1. \A n \in Messages : Confirmed(n)' => copy'[n] = copy[n] /\ (n = m \/ Confirmed(n))
      BY <1>3 DEF Confirmed, Pending
    <3>2. \A n \in Messages : n # m /\ Confirmed(n) => Claim(n) # Claim(m)
      BY <2>2 DEF OneCarrier, ClaimHeld
    <3>3. \A n \in Messages : Claim(n)' = Claim(n)
      BY <1>3 DEF Claim
    <3>4. QED  BY <1>3, <3>1, <3>2, <3>3 DEF OneCarrier, OneRunner, ClaimHeld
  <2>3. QED  BY <2>1, <2>2
<1>4. ASSUME NEW m \in Messages, RightCode(m) PROVE OneCarrier'
  <2>1. ~Confirmed(m)'
    BY <1>4 DEF RightCode, Confirmed, Pending, local
  <2>2. \A n \in Messages : Confirmed(n)' => Confirmed(n) /\ copy'[n] = copy[n] /\ Claim(n) \in claims'
    BY <1>4, <2>1 DEF RightCode, Goes, local, Confirmed, Pending, OneCarrier, ClaimHeld, Typed, TypeOK
  <2>3. QED  BY <2>2, CarrierKept
<1>5. ASSUME NEW m \in Messages, Executing(m) PROVE OneCarrier'
  <2> USE DEF Typed, TypeOK, Goes, local, WriteSession
  <2>0. CASE Save(m)
    BY <2>0, CarrierKept DEF Save, Confirmed, Pending, OneCarrier, ClaimHeld
  <2>1. CASE CloseSaved(m) \/ Fail(m) \/ Refuse(m)
    BY <2>1, Elsewhere DEF CloseSaved, Fail, Refuse
  <2>2. CASE Gate(m) \/ ClearSession(m) \/ PopSession(m)
    BY <2>2, Elsewhere DEF Gate, ClearSession, PopSession
  <2>3. CASE Raise(m) \/ CloseRaises(m)
    <3>1. pc'[m] \notin {"run", "saved"} /\ \A n \in Messages : n # m => pc'[n] = pc[n] /\ copy'[n] = copy[n]
      BY <2>3 DEF Raise, CloseRaises
    <3>2. \A n \in Messages : n # m /\ Confirmed(n) => Claim(n) \in claims'
      BY <2>3 DEF Raise, CloseRaises, GiveClaimBack, OneCarrier, OneRunner, ClaimHeld, Confirmed
    <3>3. \A n \in Messages : Confirmed(n)' => Confirmed(n) /\ copy'[n] = copy[n] /\ Claim(n) \in claims'
      BY <3>1, <3>2 DEF Confirmed, Pending
    <3>4. QED  BY <3>3, CarrierKept
  <2>4. QED  BY <1>5, <2>0, <2>1, <2>2, <2>3 DEF Executing
<1>6. ASSUME NEW m \in Messages, Tool(m) \/ Reply(m) \/ AgentRaises(m) \/ Photos(m) PROVE OneCarrier'
  <2> USE DEF Typed, TypeOK, Goes, local, WriteSession, Forget
  <2>1. CASE Tool(m)
    BY <2>1, CarrierKept DEF Tool, Fill, Confirm, Drop, Confirmed, Pending, OneCarrier, ClaimHeld
  <2>2. CASE Reply(m) \/ AgentRaises(m)
    BY <2>2, Elsewhere DEF Reply, AgentRaises
  <2>3. CASE Photos(m)
    BY <2>3, Elsewhere DEF Photos, FindDraft, PutOnDraft, CopySession, PutOnSession
  <2>4. QED  BY <1>6, <2>1, <2>2, <2>3
<1>7. ASSUME NEW m \in Messages, Crash(m) PROVE OneCarrier'
  BY <1>7, Elsewhere DEF Crash, Forget, Typed, TypeOK
<1>8. ASSUME NEW c \in claims, ClaimRunsOut(c) PROVE OneCarrier'
  BY <1>8, CarrierKept DEF ClaimRunsOut, local, Confirmed, Pending, OneCarrier, ClaimHeld
<1>9. CASE LeaseRunsOut \/ Overstay
  BY <1>9, CarrierKept DEF LeaseRunsOut, Overstay, local, Confirmed, Pending, OneCarrier, ClaimHeld
<1>10. QED
  BY <1>1, <1>2, <1>3, <1>4, <1>5, <1>6, <1>7, <1>8, <1>9 DEF Next, Forward, AfterReading

\* Two yes to one card never carry it out at the same time, whatever is late, dies or overlaps.
THEOREM OneRunnerHolds == Spec => []OneRunner
<1> USE Init_Typed, Step_Typed, Init_OneCarrier, Step_OneCarrier
<1>1. Init => Typed /\ OneCarrier
  OBVIOUS
<1>2. (Typed /\ OneCarrier) /\ [Next]_vars => (Typed /\ OneCarrier)'
  OBVIOUS
<1>3. OneCarrier => OneRunner
  BY DEF OneCarrier
<1>4. QED  BY <1>1, <1>2, <1>3, PTL DEF Spec

-----------------------------------------------------------------------------
(* Nothing is erased *)

\* Between reading the session and answering.
Working == {"read", "run", "saved", "clear", "expired", "pop", "agent"}

\* Without slow turns and photos, a turn that works on the session has it as it is.
UpToDate ==
  /\ photo = FALSE /\ overstays = 0
  /\ \A m \in Messages : pc[m] \notin {"attach", "copy", "mark"}
  /\ \A m \in Messages : pc[m] \in Working => copy[m] = session

Lonely == Typed /\ OneTurn /\ UpToDate

LEMMA Init_UpToDate == TakesPhotos = FALSE /\ Init => UpToDate
BY DEF Init, UpToDate, Working

\* What a step of a turn does to the session is known to it, and to it alone.
LEMMA TurnUpToDate ==
  ASSUME Lonely, NEW m \in Messages, Within(m),
         \A n \in Messages : n # m => pc'[n] = pc[n],
         pc'[m] \in Working => copy'[m] = session',
         pc'[m] \notin {"attach", "copy", "mark"},
         UNCHANGED <<photo, overstays>>
  PROVE  UpToDate'
<1>1. \A n \in Messages : n # m => ~Within(n)
  BY DEF Lonely, UpToDate, OneTurn, Within
<1>2. \A n \in Messages : n # m => pc'[n] \notin Working
  BY <1>1 DEF Within, InTurn, Working
<1>3. QED  BY <1>2 DEF Lonely, UpToDate

LEMMA Step_UpToDate ==
  ASSUME MaxOverstays = 0, Lonely, [Next]_vars
  PROVE  UpToDate'
<1>1. CASE UNCHANGED vars
  BY <1>1 DEF vars, local, Lonely, UpToDate
<1>2. ASSUME NEW m \in Messages, Read(m) \/ AfterReading(m) PROVE UpToDate'
  <2> USE DEF Goes, Within, InTurn, Working, local, history, WriteSession, Typed, TypeOK
  <2>1. CASE Read(m) \/ Correct(m) \/ Retry(m) \/ ToAgent(m)
    BY <2>1, TurnUpToDate DEF Lonely, Read, Correct, Retry, ToAgent
  <2>2. CASE Cancel(m) \/ Yes(m) \/ Expire(m) \/ WrongCode(m) \/ RightCode(m)
    BY <2>2, TurnUpToDate DEF Lonely, UpToDate, Cancel, Yes, Expire, WrongCode, RightCode
  <2>3. QED  BY <1>2, <2>1, <2>2 DEF AfterReading
<1>3. ASSUME NEW m \in Messages, Executing(m) \/ Reply(m) \/ AgentRaises(m) PROVE UpToDate'
  <2> USE DEF Goes, Within, InTurn, Working, local, history, WriteSession, Typed, TypeOK
  <2>1. CASE Save(m) \/ CloseSaved(m) \/ Fail(m) \/ Refuse(m) \/ Raise(m) \/ CloseRaises(m)
    BY <2>1, TurnUpToDate DEF Lonely, UpToDate, Save, CloseSaved, Fail, Refuse, Raise, CloseRaises
  <2>2. CASE Gate(m) \/ ClearSession(m) \/ PopSession(m) \/ Reply(m) \/ AgentRaises(m)
    BY <2>2, TurnUpToDate DEF Lonely, Gate, ClearSession, PopSession, Reply, AgentRaises
  <2>3. QED  BY <1>3, <2>1, <2>2 DEF Executing
<1>4. ASSUME NEW m \in Messages, Tool(m) \/ CheckLock(m) \/ Release(m) PROVE UpToDate'
  <2> USE DEF Goes, Within, InTurn, Working, local, history, Forget, Typed, TypeOK
  <2>1. CASE Tool(m)
    BY <2>1, TurnUpToDate DEF Lonely, UpToDate, Tool, Fill, Confirm, Drop
  <2>2. CASE CheckLock(m) \/ Release(m)
    BY <2>2, TurnUpToDate DEF Lonely, CheckLock, Release
  <2>3. QED  BY <1>4, <2>1, <2>2
<1>5. ASSUME NEW m \in Messages, Photos(m) PROVE UpToDate'
  <2>1. FindDraft(m)
    BY <1>5 DEF Photos, PutOnDraft, CopySession, PutOnSession, Goes, Lonely, UpToDate
  <2>2. QED  BY <2>1 DEF FindDraft, Goes, history, Working, Lonely, UpToDate, Typed, TypeOK
<1>6. ASSUME NEW m \in Messages, Arrive(m) \/ TakeTurn(m) \/ GiveUp(m) PROVE UpToDate'
  BY <1>6 DEF Arrive, TakeTurn, GiveUp, Goes, local, history, Working, Lonely, UpToDate, Typed, TypeOK
<1>7. ASSUME NEW m \in Messages, Crash(m) PROVE UpToDate'
  BY <1>7 DEF Crash, Forget, Working, Lonely, UpToDate, Typed, TypeOK
<1>8. CASE (\E c \in claims : ClaimRunsOut(c)) \/ LeaseRunsOut
  BY <1>8 DEF ClaimRunsOut, LeaseRunsOut, local, history, Lonely, UpToDate
<1>9. CASE Overstay
  BY <1>9 DEF Overstay, Lonely, UpToDate
<1>10. QED
  BY <1>1, <1>2, <1>3, <1>4, <1>5, <1>6, <1>7, <1>8, <1>9 DEF Next, Forward

\* Only a turn that works on the session, or the photo part, writes it.
LEMMA WritersWork ==
  ASSUME Typed, [Next]_vars, NEW m \in Messages, pc'[m] # pc[m], session' # session
  PROVE  pc[m] \in Working \cup {"turn", "mark"}
<1> USE DEF Goes, Working, local, history, WriteSession, Typed, TypeOK
<1>1. PICK n \in Messages :
        \/ Arrive(n) \/ TakeTurn(n) \/ GiveUp(n) \/ Crash(n)
        \/ Forward(n) \/ Tool(n)
  BY DEF Next, ClaimRunsOut, LeaseRunsOut, Overstay, vars
<1>2. CASE Arrive(n) \/ TakeTurn(n) \/ GiveUp(n) \/ Crash(n) \/ Tool(n)
  BY <1>2 DEF Arrive, TakeTurn, GiveUp, Crash, Tool, Fill, Confirm, Drop
<1>3. CASE Forward(n)
  <2>1. n = m
    BY <1>3, ForwardKeeps
  <2>2. CASE Read(n) \/ AfterReading(n)
    BY <2>1, <2>2 DEF Read, AfterReading, Cancel, Yes, Correct, Expire, WrongCode, RightCode, Retry, ToAgent
  <2>3. CASE Executing(n)
    BY <2>1, <2>3 DEF Executing, Save, CloseSaved, CloseRaises, Fail, Refuse, Raise, Gate, ClearSession, PopSession
  <2>4. CASE Reply(n) \/ AgentRaises(n) \/ CheckLock(n) \/ Release(n)
    BY <2>1, <2>4 DEF Reply, AgentRaises, CheckLock, Release
  <2>5. CASE Photos(n)
    BY <2>1, <2>5 DEF Photos, FindDraft, PutOnDraft, CopySession, PutOnSession
  <2>6. QED  BY <1>3, <2>2, <2>3, <2>4, <2>5 DEF Forward
<1>4. QED  BY <1>1, <1>2, <1>3

\* A turn never writes the session over a change it has not seen, when no turn outlasts its lease and
\* no photo is attached after a turn (both assumptions are needed: see the runs).
THEOREM NothingErasedHolds ==
  ASSUME MaxOverstays = 0, TakesPhotos = FALSE
  PROVE  Spec => NothingErased
<1>1. Init => Lonely
  BY Init_Typed, Init_OneTurn, Init_UpToDate DEF Lonely
<1>2. Lonely /\ [Next]_vars => Lonely'
  BY Step_Typed, Step_OneTurn, Step_UpToDate DEF Lonely
<1>3. Lonely /\ [Next]_vars
      => [\A m \in Messages : pc'[m] # pc[m] /\ session' # session /\ pc[m] # "turn"
                                => copy[m] = session]_vars
  BY WritersWork DEF Lonely, UpToDate
<1>4. QED  BY <1>1, <1>2, <1>3, PTL DEF Spec, NothingErased

-----------------------------------------------------------------------------
(* What is closed stays closed, and what was carried out is not carried out again *)

\* No copy has the request, and no tool can open it again.
Gone(r) ==
  /\ r \in opened
  /\ ~Back(r)
  /\ \A m \in Messages : pc[m] = "agent" /\ mine[m] # None => mine[m].req # r

\* The turn that carried it out has still to clear it away.
Clearing(r) ==
  \E m \in Messages : pc[m] \in {"saved", "clear"} /\ copy[m] # None /\ copy[m].req = r

\* What is open was asked for.
OpenWasAsked ==
  /\ session # None => session.req \in opened
  /\ draft # None => draft.req \in opened
  /\ \A m \in Messages : pc[m] = "agent" /\ mine[m] # None => mine[m].req \in opened

\* The draft goes first: whoever is about to clear the session, or answers with none, has closed it.
DraftGoesFirst ==
  \A m \in Messages :
    /\ pc[m] \in {"clear", "expired"} => draft = None
    /\ pc[m] = "agent" /\ mine[m] = None => draft = None \/ copy[m] = None

ClosedIsGone == \A r \in Requests : told[r] = "closed" => Gone(r)

\* A run that was not cut short is the last one, or is being cleared away.
RanIsGone ==
  \A r \in Requests : ran[r] > cut[r] => ran[r] = 1 + cut[r] /\ (Gone(r) \/ Clearing(r))

Settled == OpenWasAsked /\ DraftGoesFirst /\ ClosedIsGone /\ RanIsGone

LEMMA Init_Settled == Init => Settled
<1> SUFFICES ASSUME Init PROVE Settled
  OBVIOUS
<1>1. OpenWasAsked
  BY NoneIsApart DEF Init, OpenWasAsked, Cards
<1>2. QED  BY <1>1 DEF Init, Settled, DraftGoesFirst, ClosedIsGone, RanIsGone

\* While one message is in its turn no other is.
LEMMA Alone ==
  ASSUME Lonely, NEW m \in Messages, Within(m), NEW n \in Messages, n # m
  PROVE  pc[n] \notin InTurn
BY DEF Lonely, UpToDate, OneTurn, Within

\* A step that leaves the copies, the history and everybody's part in them alone.
LEMMA SettledApart ==
  ASSUME Settled, UNCHANGED <<session, draft, opened, ran, told, cut>>,
         \A n \in Messages : pc'[n] \in {"saved", "clear", "expired", "agent"} =>
           pc'[n] = pc[n] /\ copy'[n] = copy[n] /\ mine'[n] = mine[n],
         \A n \in Messages : pc[n] \in {"saved", "clear"} => pc'[n] = pc[n] /\ copy'[n] = copy[n]
  PROVE  Settled'
<1>1. \A r \in Requests : Gone(r) => Gone(r)'
  BY DEF Gone, Back
<1>2. \A r \in Requests : Clearing(r) => Clearing(r)'
  BY DEF Clearing
<1>3. OpenWasAsked' /\ DraftGoesFirst'
  BY DEF Settled, OpenWasAsked, DraftGoesFirst
<1>4. ClosedIsGone' /\ RanIsGone'
  BY <1>1, <1>2 DEF Settled, ClosedIsGone, RanIsGone
<1>5. QED  BY <1>3, <1>4 DEF Settled

\* A step of a turn that carries nothing out and has nothing to clear: what was gone before is gone after it.
LEMMA SettledInTurn ==
  ASSUME Lonely, Settled, NEW m \in Messages, Within(m), pc[m] \notin {"saved", "clear"},
         \A n \in Messages : n # m => pc'[n] = pc[n] /\ copy'[n] = copy[n] /\ mine'[n] = mine[n],
         OpenWasAsked', DraftGoesFirst', UNCHANGED <<ran, cut>>,
         \A r \in Requests : Gone(r) => Gone(r)',
         \A r \in Requests : told'[r] = "closed" => told[r] = "closed" \/ Gone(r)'
  PROVE  Settled'
<1>1. \A r \in Requests : ~Clearing(r)
  <2>1. \A n \in Messages : n # m => pc[n] \notin {"saved", "clear"}
    BY Alone DEF InTurn
  <2>2. QED  BY <2>1 DEF Clearing
<1>2. ClosedIsGone'
  BY DEF Settled, ClosedIsGone
<1>3. RanIsGone'
  BY <1>1 DEF Settled, RanIsGone
<1>4. QED  BY <1>2, <1>3 DEF Settled

\* A turn that ends after its run, or is lost anywhere else, leaves no run unaccounted for.
LEMMA CutCounts ==
  ASSUME Typed, RanIsGone, NEW m \in Messages, cut' = CutShort(m), UNCHANGED ran,
         \A r \in Requests : Gone(r) => Gone(r)',
         \A n \in Messages : n # m => pc'[n] = pc[n] /\ copy'[n] = copy[n]
  PROVE  RanIsGone'
<1> SUFFICES ASSUME NEW r \in Requests, ran[r] > cut'[r]
             PROVE  ran[r] = 1 + cut'[r] /\ (Gone(r)' \/ Clearing(r)')
  BY DEF RanIsGone
<1>1. ran[r] \in Nat /\ cut[r] \in Nat /\ (cut'[r] = cut[r] \/ cut'[r] = cut[r] + 1)
  BY CutTyped DEF Typed, TypeOK
<1>2. ran[r] = 1 + cut[r] /\ (Gone(r) \/ Clearing(r)) /\ cut'[r] = cut[r]
  BY <1>1 DEF RanIsGone
<1>3. CASE Gone(r)
  BY <1>2, <1>3
<1>4. CASE Clearing(r)
  <2>1. PICK n \in Messages : pc[n] \in {"saved", "clear"} /\ copy[n] # None /\ copy[n].req = r
    BY <1>4 DEF Clearing
  <2>2. n # m
    <3> SUFFICES ASSUME n = m PROVE FALSE
      OBVIOUS
    <3>1. ran[copy[m].req] > cut[copy[m].req]
      BY <1>1, <1>2, <2>1
    <3>2. cut' = [cut EXCEPT ![copy[m].req] = @ + 1]
      BY <2>1, <3>1 DEF CutShort
    <3>3. cut'[r] = cut[r] + 1
      BY <2>1, <3>2 DEF Typed, TypeOK
    <3>4. QED  BY <1>1, <1>2, <3>3
  <2>3. QED  BY <1>2, <2>1, <2>2 DEF Clearing
<1>5. QED  BY <1>2, <1>3, <1>4

LEMMA ReadingSettled ==
  ASSUME Lonely, Settled, NEW m \in Messages, Read(m) \/ AfterReading(m)
  PROVE  Settled'
<1> USE DEF Goes, InTurn, local, history, WriteSession
<1>0. Typed /\ TypeOK /\ Within(m) /\ pc[m] \in {"turn", "read"}
  BY DEF Lonely, Typed, Within, Read, AfterReading, Cancel, Yes, Correct, Expire, WrongCode, RightCode, Retry,
         ToAgent
<1>1. \A n \in Messages : n # m => pc[n] \notin InTurn
  BY <1>0, Alone
<1>2. pc[m] = "read" => copy[m] = session
  BY DEF Lonely, UpToDate, Working
<1>3. CASE Read(m)
  BY <1>0, <1>1, <1>3, SettledInTurn
     DEF Read, Settled, OpenWasAsked, DraftGoesFirst, Gone, Back, TypeOK
<1>4. CASE Cancel(m) \/ Expire(m)
  BY <1>0, <1>1, <1>4, SettledInTurn
     DEF Cancel, Expire, CloseDraft, Settled, OpenWasAsked, DraftGoesFirst, Gone, Back, TypeOK
<1>5. CASE Yes(m) \/ WrongCode(m) \/ RightCode(m)
  BY <1>0, <1>1, <1>5, SettledApart DEF Yes, WrongCode, RightCode, TypeOK
<1>6. CASE Correct(m)
  <2>1. session' # None /\ session'.req = session.req /\ session # None
    BY <1>0, <1>2, <1>6, NoneIsApart DEF Correct, Pending, Cards, Stages, TypeOK
  <2>2. QED
    BY <1>0, <1>1, <1>6, <2>1, SettledInTurn
       DEF Correct, Settled, OpenWasAsked, DraftGoesFirst, Gone, Back, TypeOK
<1>7. CASE Retry(m)
  BY <1>0, <1>1, <1>7, SettledInTurn
     DEF Retry, Settled, OpenWasAsked, DraftGoesFirst, Gone, Back, TypeOK
<1>8. CASE ToAgent(m)
  BY <1>0, <1>1, <1>8, SettledInTurn
     DEF ToAgent, Settled, OpenWasAsked, DraftGoesFirst, Gone, Back, TypeOK
<1>9. QED  BY <1>3, <1>4, <1>5, <1>6, <1>7, <1>8 DEF AfterReading

LEMMA ExecutingSettled ==
  ASSUME Lonely, Settled, NEW m \in Messages, Executing(m)
  PROVE  Settled'
<1> USE DEF Goes, InTurn, local, history, WriteSession
<1>0. Typed /\ TypeOK /\ Within(m) /\ pc[m] \in {"run", "saved", "clear", "expired", "pop"}
  BY DEF Lonely, Typed, Within, Executing, Save, CloseSaved, CloseRaises, Fail, Refuse, Raise, Gate, ClearSession,
         PopSession
<1>1. \A n \in Messages : n # m => pc[n] \notin InTurn
  BY <1>0, Alone
<1>2. copy[m] = session /\ (pc[m] = "run" => copy[m] # None)
  BY <1>0 DEF Lonely, UpToDate, Working, Typed, InHand
<1>3. CASE Save(m)
  <2>0. PICK q : q = copy[m].req
    OBVIOUS
  <2>1. q \in Requests /\ q \in opened /\ Back(q)
    BY <1>0, <1>2, <1>3, <2>0 DEF Save, Cards, TypeOK, Settled, OpenWasAsked, Back
  <2>2. \A r \in Requests : ~Clearing(r)
    BY <1>0, <1>1, <1>3 DEF Save, Clearing
  <2>3. \A r \in Requests : Gone(r) => Gone(r)' /\ r # q
    BY <1>0, <1>3, <2>1 DEF Save, Gone, Back, TypeOK
  <2>4. Clearing(q)'
    BY <1>0, <1>2, <1>3, <2>0 DEF Save, Clearing, TypeOK
  <2>5. ran' = [ran EXCEPT ![q] = @ + 1] /\ cut' = cut /\ told' = told
    BY <1>3, <2>0 DEF Save
  <2>6. RanIsGone'
    <3> SUFFICES ASSUME NEW r \in Requests, ran'[r] > cut'[r]
                 PROVE  ran'[r] = 1 + cut'[r] /\ (Gone(r)' \/ Clearing(r)')
      BY DEF RanIsGone
    <3>1. CASE r = q
      <4>1. ~Gone(q) /\ ~Clearing(q)
        BY <2>1, <2>2, <2>3
      <4>2. ~(ran[q] > cut[q])
        BY <2>1, <4>1 DEF Settled, RanIsGone
      <4>3. ran[q] \in Nat /\ cut[q] \in Nat /\ ran'[q] = ran[q] + 1 /\ cut'[q] = cut[q]
        <5>1. ran \in [Requests -> Nat] /\ cut \in [Requests -> Nat]
          BY <1>0 DEF TypeOK
        <5>2. QED  BY <2>1, <2>5, <5>1
      <4>4. QED  BY <2>4, <3>1, <4>2, <4>3
    <3>2. CASE r # q
      BY <1>0, <2>2, <2>3, <2>5, <3>2 DEF TypeOK, Settled, RanIsGone
    <3>3. QED  BY <3>1, <3>2
  <2>7. ClosedIsGone'
    BY <2>3, <2>5 DEF Settled, ClosedIsGone
  <2>8. OpenWasAsked' /\ DraftGoesFirst'
    BY <1>0, <1>3 DEF Save, Settled, OpenWasAsked, DraftGoesFirst, TypeOK
  <2>9. QED  BY <2>6, <2>7, <2>8 DEF Settled
<1>4. CASE CloseSaved(m)
  <2>1. \A r \in Requests : (Gone(r) => Gone(r)') /\ (Clearing(r) => Clearing(r)')
    <3>1. \A r \in Requests : Gone(r) => Gone(r)'
      BY <1>0, <1>4 DEF CloseSaved, CloseDraft, Gone, Back, TypeOK
    <3>2. \A r \in Requests : Clearing(r) => Clearing(r)'
      BY <1>0, <1>1, <1>4 DEF CloseSaved, Clearing, TypeOK
    <3>3. QED  BY <3>1, <3>2
  <2>2. OpenWasAsked' /\ DraftGoesFirst'
    BY <1>0, <1>1, <1>4 DEF CloseSaved, CloseDraft, Settled, OpenWasAsked, DraftGoesFirst, TypeOK
  <2>3. ClosedIsGone' /\ RanIsGone'
    BY <1>4, <2>1 DEF CloseSaved, Settled, ClosedIsGone, RanIsGone
  <2>4. QED  BY <2>2, <2>3 DEF Settled
<1>4a. CASE CloseRaises(m)
  <2>1. \A r \in Requests : Gone(r) => Gone(r)'
    BY <1>0, <1>4a DEF CloseRaises, Gone, Back, TypeOK
  <2>2. pc[m] \in {"saved", "clear"} /\ cut' = CutShort(m) /\ UNCHANGED <<session, draft, opened, ran, told>>
    BY <1>4a DEF CloseRaises
  <2>3. \A n \in Messages : n # m => pc'[n] = pc[n] /\ copy'[n] = copy[n]
    BY <1>0, <1>4a DEF CloseRaises, TypeOK
  <2>3a. ClosedIsGone' /\ RanIsGone'
    BY <1>0, <2>1, <2>2, <2>3, CutCounts DEF Settled, ClosedIsGone
  <2>4. OpenWasAsked' /\ DraftGoesFirst'
    BY <1>0, <1>4a DEF CloseRaises, Settled, OpenWasAsked, DraftGoesFirst, TypeOK
  <2>5. QED  BY <2>3a, <2>4 DEF Settled
<1>5. CASE Fail(m)
  BY <1>0, <1>1, <1>5, SettledInTurn
     DEF Fail, CloseDraft, Settled, OpenWasAsked, DraftGoesFirst, Gone, Back, TypeOK
<1>6. CASE Refuse(m) \/ Raise(m)
  BY <1>0, <1>1, <1>6, SettledApart DEF Refuse, Raise, GiveClaimBack, TypeOK
<1>7. CASE Gate(m)
  <2>1. session # None /\ session' # None /\ session'.req = session.req
    BY <1>0, <1>2, <1>7, NoneIsApart DEF Gate, Cards, Stages, TypeOK
  <2>2. QED
    BY <1>0, <1>1, <1>7, <2>1, SettledInTurn
       DEF Gate, Settled, OpenWasAsked, DraftGoesFirst, Gone, Back, TypeOK
<1>8. CASE PopSession(m)
  BY <1>0, <1>1, <1>8, SettledInTurn
     DEF PopSession, Settled, OpenWasAsked, DraftGoesFirst, Gone, Back, TypeOK
<1>9. CASE ClearSession(m)
  <2>1. pc[m] \in {"clear", "expired"} /\ draft' = None /\ session' = None /\ copy'[m] = None
    BY <1>0, <1>9 DEF ClearSession, Settled, DraftGoesFirst, TypeOK
  <2>2. \A n \in Messages : ~(pc'[n] = "agent" /\ mine'[n] # None)
    BY <1>0, <1>1, <1>9 DEF ClearSession, TypeOK
  <2>3. \A r \in opened : Gone(r)'
    BY <1>9, <2>1, <2>2 DEF ClearSession, Gone, Back
  <2>4. \A r \in Requests : told'[r] = "closed" => r \in opened
    BY <1>0, <1>2, <1>9 DEF ClearSession, Closed, Settled, ClosedIsGone, OpenWasAsked, Gone, TypeOK
  <2>5. \A r \in Requests : ran[r] > cut[r] => ran[r] = 1 + cut[r] /\ r \in opened
    <3>1. \A r \in Requests : Clearing(r) => r \in opened
      <4>1. \A n \in Messages : pc[n] \in {"saved", "clear"} => copy[n] = session
        BY DEF Lonely, UpToDate, Working
      <4>2. QED  BY <4>1 DEF Clearing, Settled, OpenWasAsked
    <3>2. QED  BY <3>1 DEF Settled, RanIsGone, Gone
  <2>6. ClosedIsGone' /\ RanIsGone'
    BY <1>9, <2>3, <2>4, <2>5 DEF ClearSession, ClosedIsGone, RanIsGone
  <2>7. OpenWasAsked' /\ DraftGoesFirst'
    BY <2>1, <2>2 DEF OpenWasAsked, DraftGoesFirst
  <2>8. QED  BY <2>6, <2>7 DEF Settled
<1>10. QED  BY <1>3, <1>4, <1>4a, <1>5, <1>6, <1>7, <1>8, <1>9 DEF Executing

LEMMA AgentSettled ==
  ASSUME Lonely, Settled, NEW m \in Messages, Tool(m) \/ Reply(m) \/ AgentRaises(m)
  PROVE  Settled'
<1> USE DEF Goes, InTurn, local, history, WriteSession
<1>0. Typed /\ TypeOK /\ Within(m) /\ pc[m] = "agent"
  BY DEF Lonely, Typed, Within, Tool, Fill, Confirm, Drop, Reply, AgentRaises
<1>1. \A n \in Messages : n # m => pc[n] \notin InTurn
  BY <1>0, Alone
<1>2. copy[m] = session
  BY <1>0 DEF Lonely, UpToDate, Working
<1>3. CASE Fill(m)
  <2>1. PICK r \in (IF mine[m] = None THEN {} ELSE {mine[m].req}) \cup (Requests \ opened) :
          /\ Upsert(r, "collecting")
          /\ opened' = opened \cup {r}
          /\ \E stamp \in (IF mine[m] = None THEN {} ELSE {mine[m].made}) \cup Unused :
               mine' = [mine EXCEPT ![m] = [req |-> r, stage |-> "collecting", made |-> stamp]]
    BY <1>3 DEF Fill
  <2>2. ~Gone(r) /\ r \in opened'
    BY <1>0, <2>1 DEF Gone
  <2>3. draft'.req = r
    BY <1>0, <2>1, UpsertSays
  <2>4. mine'[m].req = r /\ mine'[m] # None
    <3>1. mine' \in [Messages -> Cards \cup {None}]
      BY <1>3, AgentTyped DEF Lonely, Typed, TypeOK
    <3>2. PICK card : mine' = [mine EXCEPT ![m] = card] /\ card.req = r
                      /\ \E stamp \in Stamps : card = [req |-> r, stage |-> "collecting", made |-> stamp]
      <4>1. mine[m] # None => mine[m].made \in Stamps
        BY <1>0 DEF TypeOK, Cards
      <4>2. QED  BY <2>1, <4>1 DEF Unused
    <3>3. r \in Requests
      BY <1>0, <2>1 DEF TypeOK, Cards
    <3>4. card \in Cards
      BY <3>2, <3>3 DEF Cards, Stages
    <3>5. QED  BY <1>0, <3>2, <3>4, NoneIsApart DEF TypeOK
  <2>5. \A n \in Messages : n # m => mine'[n] = mine[n]
    BY <1>0, <2>1 DEF TypeOK
  <2>6. \A q \in Requests : Gone(q) => Gone(q)'
    BY <1>3, <2>1, <2>2, <2>3, <2>4, <2>5 DEF Fill, Gone, Back
  <2>7. OpenWasAsked' /\ DraftGoesFirst'
    BY <1>0, <1>1, <1>3, <2>1, <2>2, <2>3, <2>4, <2>5 DEF Fill, Settled, OpenWasAsked, DraftGoesFirst
  <2>8. QED  BY <1>0, <1>3, <2>5, <2>6, <2>7, SettledInTurn DEF Fill, Settled, ClosedIsGone
<1>4. CASE Confirm(m)
  <2>1. draft'.req = mine[m].req /\ mine[m] # None
    BY <1>0, <1>4, UpsertSays DEF Confirm
  <2>2. mine'[m] # None /\ mine'[m].req = mine[m].req
    <3>1. PICK stamp \in {mine[m].made} \cup Unused :
            mine' = [mine EXCEPT ![m].stage = "awaiting_confirmation", ![m].made = stamp]
      BY <1>4 DEF Confirm
    <3>2. mine' = [mine EXCEPT ![m] = [mine[m] EXCEPT !.stage = "awaiting_confirmation", !.made = stamp]]
      BY <3>1
    <3>3. mine[m] \in Cards /\ stamp \in Stamps
      BY <1>0, <2>1, <3>1 DEF TypeOK, Cards, Unused
    <3>4. [mine[m] EXCEPT !.stage = "awaiting_confirmation", !.made = stamp] \in Cards
      BY <3>3 DEF Cards, Stages
    <3>5. [mine[m] EXCEPT !.stage = "awaiting_confirmation", !.made = stamp].req = mine[m].req
      BY <3>3 DEF Cards
    <3>6. QED  BY <1>0, <3>2, <3>4, <3>5, NoneIsApart DEF TypeOK
  <2>3. \A n \in Messages : n # m => mine'[n] = mine[n]
    BY <1>0, <1>4 DEF Confirm, TypeOK
  <2>4. OpenWasAsked' /\ DraftGoesFirst'
    BY <1>0, <1>1, <1>4, <2>1, <2>2, <2>3 DEF Confirm, Settled, OpenWasAsked, DraftGoesFirst
  <2>5. \A q \in Requests : Gone(q) => Gone(q)'
    BY <1>0, <1>4, <2>1, <2>2, <2>3 DEF Confirm, Gone, Back
  <2>6. QED  BY <1>0, <1>4, <2>3, <2>4, <2>5, SettledInTurn DEF Confirm, Settled, ClosedIsGone
<1>5. CASE Drop(m)
  BY <1>0, <1>1, <1>5, SettledInTurn
     DEF Drop, CloseDraft, Settled, OpenWasAsked, DraftGoesFirst, Gone, Back, TypeOK
<1>6. CASE Reply(m)
  <2>1. \A n \in Messages : n # m => copy'[n] = copy[n] /\ pc'[n] = pc[n]
    BY <1>0, <1>6 DEF Reply, TypeOK
  <2>2. \A q \in Requests : Gone(q) => Gone(q)'
    BY <1>0, <1>1, <1>6 DEF Reply, Gone, Back, TypeOK
  <2>3. OpenWasAsked' /\ DraftGoesFirst'
    BY <1>0, <1>1, <1>6 DEF Reply, Settled, OpenWasAsked, DraftGoesFirst, TypeOK
  <2>4. \A r \in Requests : told'[r] = "closed" => told[r] = "closed" \/ Gone(r)'
    <3> SUFFICES ASSUME NEW r \in Requests, told'[r] = "closed", told[r] # "closed" PROVE Gone(r)'
      OBVIOUS
    <3>1. mine[m] = None /\ copy[m] # None /\ r = copy[m].req
      BY <1>0, <1>6 DEF Reply, Closed, TypeOK
    <3>2. draft = None /\ r \in opened
      BY <1>0, <1>2, <3>1 DEF Settled, DraftGoesFirst, OpenWasAsked
    <3>3. \A n \in Messages : pc'[n] # "agent"
      BY <1>0, <1>1, <1>6 DEF Reply, TypeOK
    <3>4. QED  BY <1>6, <3>1, <3>2, <3>3 DEF Reply, Gone, Back
  <2>5. QED  BY <1>0, <1>6, <2>1, <2>2, <2>3, <2>4, SettledInTurn DEF Reply
<1>7. CASE AgentRaises(m)
  BY <1>0, <1>1, <1>7, SettledApart DEF AgentRaises, TypeOK
<1>8. QED  BY <1>3, <1>4, <1>5, <1>6, <1>7 DEF Tool

LEMMA Step_Settled ==
  ASSUME MaxOverstays = 0, Lonely, Settled, [Next]_vars
  PROVE  Settled'
<1> USE DEF local, history
<1>0. Typed /\ TypeOK
  BY DEF Lonely, Typed
<1>1. CASE UNCHANGED vars
  BY <1>1, SettledApart DEF vars
<1>2. ASSUME NEW m \in Messages, Arrive(m) \/ TakeTurn(m) \/ GiveUp(m) PROVE Settled'
  BY <1>0, <1>2, SettledApart DEF Arrive, TakeTurn, GiveUp, Goes, TypeOK
<1>3. ASSUME NEW m \in Messages, CheckLock(m) \/ Release(m) PROVE Settled'
  BY <1>0, <1>3, SettledApart DEF CheckLock, Release, Forget, Goes, TypeOK
<1>4. ASSUME NEW m \in Messages, Photos(m) PROVE Settled'
  <2>1. FindDraft(m)
    BY <1>4 DEF Photos, PutOnDraft, CopySession, PutOnSession, Goes, Lonely, UpToDate
  <2>2. QED  BY <1>0, <2>1, SettledApart DEF FindDraft, Goes, TypeOK
<1>5. ASSUME NEW m \in Messages, Crash(m) PROVE Settled'
  <2>1. \A r \in Requests : Gone(r) => Gone(r)'
    BY <1>0, <1>5 DEF Crash, Forget, Gone, Back, TypeOK
  <2>2. cut' = CutShort(m) /\ UNCHANGED <<session, draft, opened, ran, told>>
    BY <1>5 DEF Crash
  <2>3. \A n \in Messages : n # m => pc'[n] = pc[n] /\ copy'[n] = copy[n]
    BY <1>0, <1>5 DEF Crash, Forget, TypeOK
  <2>4. ClosedIsGone' /\ RanIsGone'
    BY <1>0, <2>1, <2>2, <2>3, CutCounts DEF Settled, ClosedIsGone
  <2>5. OpenWasAsked' /\ DraftGoesFirst'
    BY <1>0, <1>5 DEF Crash, Forget, Settled, OpenWasAsked, DraftGoesFirst, TypeOK
  <2>6. QED  BY <2>4, <2>5 DEF Settled
<1>6. CASE (\E c \in claims : ClaimRunsOut(c)) \/ LeaseRunsOut
  BY <1>6, SettledApart DEF ClaimRunsOut, LeaseRunsOut
<1>7. CASE Overstay
  BY <1>7 DEF Overstay, Lonely, UpToDate
<1>8. QED
  BY <1>1, <1>2, <1>3, <1>4, <1>5, <1>6, <1>7, ReadingSettled, ExecutingSettled, AgentSettled DEF Next, Forward

LEMMA AlwaysSettled ==
  ASSUME MaxOverstays = 0, TakesPhotos = FALSE
  PROVE  Spec => [](Lonely /\ Settled)
<1>1. Init => Lonely /\ Settled
  BY Init_Typed, Init_OneTurn, Init_UpToDate, Init_Settled DEF Lonely
<1>2. (Lonely /\ Settled) /\ [Next]_vars => (Lonely /\ Settled)'
  BY Step_Typed, Step_OneTurn, Step_UpToDate, Step_Settled DEF Lonely
<1>3. QED  BY <1>1, <1>2, PTL DEF Spec

\* A request is carried out once, whatever is tapped twice, corrected, refused or retried and however
\* soon a claim runs out; each time more is paid for by a turn that died, or failed to close the draft,
\* between the workflow and the clearing of its card.
THEOREM RunOnceHolds ==
  ASSUME MaxOverstays = 0, TakesPhotos = FALSE
  PROVE  Spec => []RunOnce
<1>1. Typed /\ Settled => RunOnce
  BY DEF Typed, TypeOK, Settled, RanIsGone, RunOnce
<1>2. Lonely => Typed
  BY DEF Lonely
<1>3. QED  BY <1>1, <1>2, AlwaysSettled, PTL

\* No later message brings back a request the person was told is done, failed or cancelled.
THEOREM ClosedStaysClosedHolds ==
  ASSUME MaxOverstays = 0, TakesPhotos = FALSE
  PROVE  Spec => []ClosedStaysClosed
<1>1. Settled => ClosedStaysClosed
  BY DEF Settled, ClosedIsGone, Gone, ClosedStaysClosed
<1>2. QED  BY <1>1, AlwaysSettled, PTL

=============================================================================
