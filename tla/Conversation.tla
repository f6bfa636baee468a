---------------------------- MODULE Conversation ----------------------------
(***************************************************************************)
(* One person's chat: handle_message of routers/webhook.py from the turn   *)
(* lock to the photos attached after the turn, with the two copies of the  *)
(* request being filled in (the session in Redis, the active row of        *)
(* user_drafts), the claim a "yes" makes on a confirmation card, and what  *)
(* services/agent.py and services/action_executor.py do to both copies.    *)
(*                                                                         *)
(* Messages are numbered in the order they arrive.  Each is a task; turns  *)
(* overlap when a lease runs out early, and a turn's photo part runs after *)
(* the lock is given back.  A request is what the person asked for; a      *)
(* stamp is a created_at, by which a card is recognised.                   *)
(***************************************************************************)
EXTENDS Naturals, FiniteSets

CONSTANTS
  Messages,     \* the person's messages: 1..n, in the order they arrive
  Requests,     \* what they may ask for
  Stamps,       \* moments that can be a created_at
  None,         \* no request, no card
  TakesPhotos,  \* do the workflows take photos, and is one waiting?
  MaxCrashes,   \* bound: how many turns die half-way, or fail after the workflow was carried out
  MaxOverstays  \* bound: how many turns outlast turn_lock_seconds

ASSUME MessagesAreNumbers == Messages \subseteq Nat \ {0}
ASSUME TakesPhotosIsBoolean == TakesPhotos \in BOOLEAN

Free == 0

Stages == {"collecting", "awaiting_confirmation", "awaiting_otp", "awaiting_approval"}

\* A request being filled in, as session["pending_action"] and as a row of user_drafts.
Cards == [req : Requests, stage : Stages, made : Stamps]

ASSUME NoneIsApart == None \notin Requests \cup Stamps \cup Cards

\* Where a message is.  "turn" to "release": inside its turn; "photos" to "mark": after it.
InTurn == {"turn", "read", "run", "saved", "clear", "expired", "pop", "agent", "sent", "release"}
AfterTurn == {"photos", "attach", "copy", "mark"}

VARIABLES
  pc,           \* where each message is
  lock,         \* turn_lock: the message that holds it, or Free
  session,      \* the pending action of the chat's session
  draft,        \* the active row of user_drafts
  claims,       \* confirm_claim keys: <<request, stamp>>
  copy,         \* copy[m]: the session as m last read or wrote it
  mine,         \* mine[m]: the card the agent, or the photo part, of m works on
  opened,       \* the requests asked for so far
  photo,        \* a photo is held for the person
  ran,          \* how often each request's workflow was carried out
  told,         \* what the person was told of a request: "closed" or "cleared"
  cut,          \* how often a turn died or failed after it carried the request out
  crashes,
  overstays

vars == <<pc, lock, session, draft, claims, copy, mine, opened, photo, ran, told, cut, crashes, overstays>>
local == <<copy, mine>>
history == <<ran, told, cut, crashes, overstays>>

TypeOK ==
  /\ pc \in [Messages -> {"new", "waiting", "over"} \cup InTurn \cup AfterTurn]
  /\ lock \in Messages \cup {Free}
  /\ session \in Cards \cup {None}
  /\ draft \in Cards \cup {None}
  /\ claims \subseteq Requests \X Stamps
  /\ copy \in [Messages -> Cards \cup {None}]
  /\ mine \in [Messages -> Cards \cup {None}]
  /\ opened \subseteq Requests
  /\ photo \in BOOLEAN
  /\ ran \in [Requests -> Nat]
  /\ told \in [Requests -> {"nothing", "closed", "cleared"}]
  /\ cut \in [Requests -> Nat]
  /\ crashes \in Nat /\ overstays \in Nat

\* Nothing is open, or an earlier chat left a card to be confirmed; its session may have run out.
Init ==
  /\ pc = [m \in Messages |-> "new"]
  /\ lock = Free
  /\ \/ opened = {} /\ draft = None /\ session = None
     \/ \E r \in Requests, made \in Stamps, shown \in Stamps :
          /\ opened = {r}
          /\ draft = [req |-> r, stage |-> "awaiting_confirmation", made |-> made]
          /\ session \in {None, [draft EXCEPT !.made = shown]}
  /\ claims = {}
  /\ copy = [m \in Messages |-> None]
  /\ mine = [m \in Messages |-> None]
  /\ photo = TakesPhotos
  /\ ran = [r \in Requests |-> 0]
  /\ told = [r \in Requests |-> "nothing"]
  /\ cut = [r \in Requests |-> 0] /\ crashes = 0 /\ overstays = 0

-----------------------------------------------------------------------------
\* A new created_at: a moment no card or claim has.
Unused ==
  Stamps \ ({c[2] : c \in claims}
            \cup {c.made : c \in ({session, draft} \cup {copy[m] : m \in Messages}
                                  \cup {mine[m] : m \in Messages}) \ {None}})

Goes(m, from, to) == pc[m] = from /\ pc' = [pc EXCEPT ![m] = to]

\* upsert_draft: the one active row follows the request and the stage it is given; without one a
\* row is made, with a created_at of its own.
Upsert(r, stage) ==
  \/ draft = None /\ \E now \in Unused : draft' = [req |-> r, stage |-> stage, made |-> now]
  \/ draft # None /\ draft' = [draft EXCEPT !.req = r, !.stage = stage]

CloseDraft == draft' = None

\* set_session: the whole session is written from the copy this turn has.
WriteSession(m, card) == session' = card /\ copy' = [copy EXCEPT ![m] = card]

-----------------------------------------------------------------------------
(* The turn lock *)

Arrive(m) ==
  /\ \A n \in Messages : n < m => pc[n] # "new"
  /\ Goes(m, "new", "waiting")
  /\ UNCHANGED <<lock, session, draft, claims, local, opened, photo, history>>

\* Mutant: the lock is taken without NX.
TakeTurnAnyway(m) ==
  /\ Goes(m, "waiting", "turn")
  /\ lock' = m
  /\ UNCHANGED <<session, draft, claims, local, opened, photo, history>>

\* _take_the_turn: SET NX, tried again until turn_wait_seconds are over.
TakeTurn(m) ==
  /\ lock = Free
  /\ Goes(m, "waiting", "turn")
  /\ lock' = m
  /\ UNCHANGED <<session, draft, claims, local, opened, photo, history>>

\* Mutant: a message that waited long enough goes ahead.
GiveUpWaiting(m) ==
  /\ lock # Free
  /\ Goes(m, "waiting", "turn")
  /\ UNCHANGED <<lock, session, draft, claims, local, opened, photo, history>>

\* "busy": the person is told to wait and the message is dropped.
GiveUp(m) ==
  /\ lock # Free
  /\ Goes(m, "waiting", "over")
  /\ UNCHANGED <<lock, session, draft, claims, local, opened, photo, history>>

\* What a task held in its hands is of no use any more.
Forget(m) == copy' = [copy EXCEPT ![m] = None] /\ mine' = [mine EXCEPT ![m] = None]

\* The turn is answered: GET says whether the lock is still ours...
CheckLock(m) ==
  /\ Goes(m, "sent", IF lock = m THEN "release" ELSE "photos")
  /\ Forget(m)
  /\ UNCHANGED <<lock, session, draft, claims, opened, photo, history>>

\* ... and DELETE takes away whatever is there by then.
Release(m) ==
  /\ Goes(m, "release", "photos")
  /\ lock' = Free
  /\ UNCHANGED <<session, draft, claims, local, opened, photo, history>>

\* Mutant: the lock was taken without a time to live.
LeaseNeverRunsOut == FALSE /\ UNCHANGED vars

\* turn_lock_seconds are over: the lock of a turn that died, or of one that takes too long, is gone.
LeaseRunsOut ==
  /\ lock # Free /\ pc[lock] \notin InTurn
  /\ lock' = Free
  /\ UNCHANGED <<pc, session, draft, claims, local, opened, photo, history>>

Overstay ==
  /\ overstays < MaxOverstays
  /\ lock # Free /\ pc[lock] \in InTurn
  /\ lock' = Free
  /\ overstays' = overstays + 1
  /\ UNCHANGED <<pc, session, draft, claims, local, opened, photo, ran, told, cut, crashes>>

-----------------------------------------------------------------------------
(* The turn: reading, cancelling, confirming *)

\* The session is read, and filled from the active draft when it has no pending action.
Read(m) ==
  /\ Goes(m, "turn", "read")
  /\ WriteSession(m, IF session = None THEN draft ELSE session)
  /\ UNCHANGED <<lock, draft, claims, mine, opened, photo, history>>

Pending(m, stage) == copy[m] # None /\ copy[m].stage = stage

\* Mutant: only the chat's copy is cleared.
CancelSessionOnly(m) ==
  /\ Goes(m, "read", "clear")
  /\ UNCHANGED <<lock, session, draft, claims, local, opened, photo, history>>

\* A cancel word, at any stage, and the reprompt cap: _clear_stuck_draft, the database row first.
Cancel(m) ==
  /\ Goes(m, "read", "clear")
  /\ CloseDraft
  /\ UNCHANGED <<lock, session, claims, local, opened, photo, history>>

\* confirm_claim:{user}:{intent}:{created_at}: how one card is told from another.
Claim(m) == <<copy[m].req, copy[m].made>>

\* Mutant: a yes does not claim the card.
YesUnclaimed(m) ==
  /\ Pending(m, "awaiting_confirmation")
  /\ Goes(m, "read", "run")
  /\ UNCHANGED <<lock, session, draft, claims, local, opened, photo, history>>

\* "yes" to a card: the first one claims it, another one is ignored.
Yes(m) ==
  /\ Pending(m, "awaiting_confirmation")
  /\ Goes(m, "read", IF Claim(m) \in claims THEN "sent" ELSE "run")
  /\ claims' = claims \cup {Claim(m)}
  /\ UNCHANGED <<lock, session, draft, local, opened, photo, history>>

\* Mutant: a stage no other part of the program knows.
CorrectOddly(m) ==
  /\ Pending(m, "awaiting_confirmation")
  /\ Goes(m, "read", "agent")
  /\ WriteSession(m, [copy[m] EXCEPT !.stage = "correcting"])
  /\ mine' = [mine EXCEPT ![m] = copy'[m]]
  /\ UNCHANGED <<lock, draft, claims, opened, photo, history>>

\* Another answer to a card is a correction: back to collecting, and on to the agent.
Correct(m) ==
  /\ Pending(m, "awaiting_confirmation")
  /\ Goes(m, "read", "agent")
  /\ WriteSession(m, [copy[m] EXCEPT !.stage = "collecting"])
  /\ mine' = [mine EXCEPT ![m] = copy'[m]]
  /\ UNCHANGED <<lock, draft, claims, opened, photo, history>>

\* The card is older than confirm_stale_minutes: cleared, and the message is a new request.
Expire(m) ==
  /\ Pending(m, "awaiting_confirmation")
  /\ Goes(m, "read", "expired")
  /\ CloseDraft
  /\ UNCHANGED <<lock, session, claims, local, opened, photo, history>>

\* A code that is not the one sent: the person may try again.
WrongCode(m) ==
  /\ Pending(m, "awaiting_otp")
  /\ Goes(m, "read", "sent")
  /\ UNCHANGED <<lock, session, draft, claims, local, opened, photo, history>>

RightCode(m) ==
  /\ Pending(m, "awaiting_otp")
  /\ Goes(m, "read", "run")
  /\ UNCHANGED <<lock, session, draft, claims, local, opened, photo, history>>

\* A retry word instead of the code: the session forgets the request, the draft keeps it.
Retry(m) ==
  /\ Pending(m, "awaiting_otp")
  /\ Goes(m, "read", "sent")
  /\ WriteSession(m, None)
  /\ told' = [told EXCEPT ![copy[m].req] = "cleared"]
  /\ UNCHANGED <<lock, draft, claims, mine, opened, photo, ran, cut, crashes, overstays>>

\* A yes and a code are answered above; everything else goes to the agent, which reads the session anew.
ToAgent(m) ==
  /\ ~Pending(m, "awaiting_confirmation") /\ ~Pending(m, "awaiting_otp")
  /\ Goes(m, "read", "agent")
  /\ copy' = [copy EXCEPT ![m] = session]
  /\ mine' = [mine EXCEPT ![m] = session]
  /\ UNCHANGED <<lock, session, draft, claims, opened, photo, history>>

-----------------------------------------------------------------------------
(* Carrying a request out: execute_pending_action *)

\* The workflow's steps are done; closing the draft and popping the session follow.
Save(m) ==
  /\ Goes(m, "run", "saved")
  /\ ran' = [ran EXCEPT ![copy[m].req] = @ + 1]
  /\ UNCHANGED <<lock, session, draft, claims, local, opened, photo, told, cut, crashes, overstays>>

\* Mutant: the draft of a request that was carried out is left open.
CloseSavedNot(m) ==
  /\ Goes(m, "saved", "clear")
  /\ UNCHANGED <<lock, session, draft, claims, local, opened, photo, history>>

CloseSaved(m) ==
  /\ Goes(m, "saved", "clear")
  /\ CloseDraft
  /\ UNCHANGED <<lock, session, claims, local, opened, photo, history>>

\* An error of a step: nothing saved, the draft is closed.
Fail(m) ==
  /\ Goes(m, "run", "clear")
  /\ CloseDraft
  /\ UNCHANGED <<lock, session, claims, local, opened, photo, history>>

\* No permission, no such workflow, or more than one record matches: the draft stays as it is.
Refuse(m) ==
  /\ Goes(m, "run", "pop")
  /\ UNCHANGED <<lock, session, draft, claims, local, opened, photo, history>>

\* "nothing was saved: the person may say yes again"
GiveClaimBack(m) == claims' = IF Pending(m, "awaiting_confirmation") THEN claims \ {Claim(m)} ELSE claims

\* Anything raised while the workflow runs.
Raise(m) ==
  /\ Goes(m, "run", "sent")
  /\ GiveClaimBack(m)
  /\ UNCHANGED <<lock, session, draft, local, opened, photo, history>>

\* A run is cut short when its turn ends after it, and before its card is cleared.
CutShort(m) ==
  IF pc[m] \in {"saved", "clear"} /\ copy[m] # None /\ ran[copy[m].req] > cut[copy[m].req]
  THEN [cut EXCEPT ![copy[m].req] = @ + 1] ELSE cut

\* close_draft raised: everything was saved, and still the claim of a yes is given back; both copies stay.
CloseRaises(m) ==
  /\ crashes < MaxCrashes
  /\ Goes(m, "saved", "sent")
  /\ GiveClaimBack(m)
  /\ crashes' = crashes + 1
  /\ cut' = CutShort(m)
  /\ UNCHANGED <<lock, session, draft, local, opened, photo, ran, told, overstays>>

\* The workflow stops at a gate; the session says which, the draft row does not.
Gate(m) ==
  /\ Goes(m, "run", "sent")
  /\ \E stage \in {"awaiting_otp", "awaiting_approval"} \ {copy[m].stage} :
       WriteSession(m, [copy[m] EXCEPT !.stage = stage])
  /\ UNCHANGED <<lock, draft, claims, mine, opened, photo, history>>

Closed(m) == IF copy[m] = None THEN told ELSE [told EXCEPT ![copy[m].req] = "closed"]

\* The chat's copy is cleared after the draft was closed, and the person is told.
ClearSession(m) ==
  /\ \/ Goes(m, "clear", "sent") /\ UNCHANGED mine
     \/ Goes(m, "expired", "agent") /\ mine' = [mine EXCEPT ![m] = None]
  /\ WriteSession(m, None)
  /\ told' = Closed(m)
  /\ UNCHANGED <<lock, draft, claims, opened, photo, ran, cut, crashes, overstays>>

\* Only the chat's copy is cleared: the next message finds the draft again.
PopSession(m) ==
  /\ Goes(m, "pop", "sent")
  /\ WriteSession(m, None)
  /\ UNCHANGED <<lock, draft, claims, mine, opened, photo, history>>

-----------------------------------------------------------------------------
(* The agent: tools that write the draft at once, a session that is written with the reply *)

\* update_draft, or a workflow opened by its command: the request in hand or a new one.  A request in
\* hand keeps its created_at, a command starts a new one.
Fill(m) ==
  /\ pc[m] = "agent"
  /\ \E r \in (IF mine[m] = None THEN {} ELSE {mine[m].req}) \cup (Requests \ opened) :
       /\ Upsert(r, "collecting")
       /\ opened' = opened \cup {r}
       /\ \E stamp \in (IF mine[m] = None THEN {} ELSE {mine[m].made}) \cup Unused :
            mine' = [mine EXCEPT ![m] = [req |-> r, stage |-> "collecting", made |-> stamp]]
  /\ UNCHANGED <<pc, lock, session, claims, copy, photo, history>>

\* confirm_action, which keeps the created_at, or _confirm_by_code, which makes a new one.
Confirm(m) ==
  /\ pc[m] = "agent"
  /\ mine[m] # None
  /\ Upsert(mine[m].req, "awaiting_confirmation")
  /\ \E stamp \in {mine[m].made} \cup Unused :
       mine' = [mine EXCEPT ![m].stage = "awaiting_confirmation", ![m].made = stamp]
  /\ UNCHANGED <<pc, lock, session, claims, copy, opened, photo, history>>

\* The request is dropped (too old, stopped by a check, a report that was answered): the draft is
\* closed at once.
Drop(m) ==
  /\ pc[m] = "agent"
  /\ mine[m] # None
  /\ CloseDraft
  /\ mine' = [mine EXCEPT ![m] = None]
  /\ UNCHANGED <<pc, lock, session, claims, copy, opened, photo, history>>

Reply(m) ==
  /\ Goes(m, "agent", "sent")
  /\ WriteSession(m, mine[m])
  /\ told' = IF mine[m] = None THEN Closed(m) ELSE told
  /\ UNCHANGED <<lock, draft, claims, mine, opened, photo, ran, cut, crashes, overstays>>

\* An error in the agent: an apology, and the session stays as it was.
AgentRaises(m) ==
  /\ Goes(m, "agent", "sent")
  /\ UNCHANGED <<lock, session, draft, claims, local, opened, photo, history>>

-----------------------------------------------------------------------------
(* After the turn: a photo that is waiting goes onto the request that is open now *)

\* _photo_draft: the active draft is read.  Without a photo, or a request for it, that is all.
FindDraft(m) ==
  /\ Goes(m, "photos", IF photo /\ draft # None THEN "attach" ELSE "over")
  /\ mine' = [mine EXCEPT ![m] = IF photo THEN draft ELSE None]
  /\ UNCHANGED <<lock, session, draft, claims, copy, opened, photo, history>>

\* The draft row gets the photo, and the request and stage it had when it was read.
PutOnDraft(m) ==
  /\ Goes(m, "attach", "copy")
  /\ Upsert(mine[m].req, mine[m].stage)
  /\ UNCHANGED <<lock, session, claims, local, opened, photo, history>>

CopySession(m) ==
  /\ pc[m] = "copy"
  /\ IF session # None /\ session.req = mine[m].req
     THEN /\ pc' = [pc EXCEPT ![m] = "mark"]
          /\ copy' = [copy EXCEPT ![m] = session]
          /\ UNCHANGED <<mine, photo>>
     ELSE /\ pc' = [pc EXCEPT ![m] = "over"]
          /\ Forget(m)
          /\ photo' = FALSE
  /\ UNCHANGED <<lock, session, draft, claims, opened, history>>

PutOnSession(m) ==
  /\ Goes(m, "mark", "over")
  /\ session' = copy[m]
  /\ Forget(m)
  /\ photo' = FALSE
  /\ UNCHANGED <<lock, draft, claims, opened, history>>

-----------------------------------------------------------------------------
(* What happens to a turn *)

\* The process dies: the turn is gone, its lock and its claim are not.
Crash(m) ==
  /\ crashes < MaxCrashes
  /\ pc[m] \in InTurn \cup AfterTurn
  /\ pc' = [pc EXCEPT ![m] = "over"]
  /\ crashes' = crashes + 1
  /\ cut' = CutShort(m)
  /\ Forget(m)
  /\ UNCHANGED <<lock, session, draft, claims, opened, photo, ran, told, overstays>>

\* confirm_stale_minutes are over; no workflow runs that long.
ClaimRunsOut(c) ==
  /\ c \in claims
  /\ \A m \in Messages : pc[m] \in {"run", "saved"} => c # Claim(m)
  /\ claims' = claims \ {c}
  /\ UNCHANGED <<pc, lock, session, draft, local, opened, photo, history>>

AfterReading(m) ==
  \/ Cancel(m) \/ Yes(m) \/ Correct(m) \/ Expire(m) \/ WrongCode(m) \/ RightCode(m) \/ Retry(m) \/ ToAgent(m)

Executing(m) ==
  \/ Save(m) \/ CloseSaved(m) \/ CloseRaises(m) \/ Fail(m) \/ Refuse(m) \/ Raise(m) \/ Gate(m)
  \/ ClearSession(m) \/ PopSession(m)

Photos(m) == FindDraft(m) \/ PutOnDraft(m) \/ CopySession(m) \/ PutOnSession(m)

\* The steps that take a turn towards its end, and the agent's tools, of which it calls a few.
Forward(m) ==
  \/ Read(m) \/ AfterReading(m) \/ Executing(m) \/ Reply(m) \/ AgentRaises(m)
  \/ CheckLock(m) \/ Release(m) \/ Photos(m)

Tool(m) == Fill(m) \/ Confirm(m) \/ Drop(m)

Next ==
  \/ \E m \in Messages : Arrive(m) \/ TakeTurn(m) \/ GiveUp(m) \/ Forward(m) \/ Tool(m) \/ Crash(m)
  \/ \E c \in claims : ClaimRunsOut(c)
  \/ LeaseRunsOut \/ Overstay

Spec == Init /\ [][Next]_vars

\* A waiting message polls, a turn's calls all have timeouts and the agent's rounds a limit, and Redis
\* lets a lease run out.
Fairness ==
  /\ \A m \in Messages : WF_vars(TakeTurn(m) \/ GiveUp(m)) /\ WF_vars(Forward(m))
  /\ WF_vars(LeaseRunsOut)

FairSpec == Spec /\ Fairness

-----------------------------------------------------------------------------
(* What must hold *)

\* "Now a person's messages go through one at a time" (_one_turn_at_a_time): as long as no turn
\* outlasted its lease, the one inside is the one that holds the lock, and there is one.
OneTurn ==
  overstays = 0 =>
    \A m \in Messages : pc[m] \in InTurn => lock = m

\* "... and wrote it back, so the second erased the first": a turn never writes the session over a change
\* it has not seen.
NothingErased ==
  [][\A m \in Messages : pc'[m] # pc[m] /\ session' # session /\ pc[m] # "turn"
                           => copy[m] = session]_vars

\* A yes carries a request out once, whatever is tapped twice, corrected, refused or retried; each time
\* more is paid for by a turn that died, or failed to close the draft, after the workflow was carried out
\* and before its card was cleared.  (After such a failure "nothing was saved" is not so: the claim is
\* given back, and the next yes carries the request out anew.)
RunOnce == \A r \in Requests : ran[r] <= 1 + cut[r]

Confirmed(m) == pc[m] \in {"run", "saved"} /\ Pending(m, "awaiting_confirmation")

\* Two yes to one card never carry it out at the same time, even when a slow turn has lost its lock
\* and both are inside: the claim is taken before the workflow starts and outlasts it.
OneRunner ==
  \A m, n \in Messages : Confirmed(m) /\ Confirmed(n) /\ Claim(m) = Claim(n) => m = n

Back(r) == (session # None /\ session.req = r) \/ (draft # None /\ draft.req = r)

\* A request the person was told is done, failed or cancelled is gone from both copies (the reason
\* _clear_stuck_draft gives for closing both): no later message brings it back.
ClosedStaysClosed == \A r \in Requests : told[r] = "closed" => ~Back(r)

\* The same for the request a retry word cleared ("MUST be used everywhere a draft is abandoned").
ClearedStaysCleared == \A r \in Requests : told[r] = "cleared" => ~Back(r)

\* A crash cannot block someone for ever: the turn always comes back.
TurnComesBack == \A m \in Messages : lock = m ~> lock # m
=============================================================================
