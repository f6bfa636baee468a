---------------------------- MODULE FlowEditing ----------------------------
(***************************************************************************)
(* The flows of an organisation in the admin panel: making, editing,       *)
(* restoring, switching and deleting them (admin_panel/studio.py,          *)
(* build.py, workflows.py), and which roles may use them (roles.py,        *)
(* sync_role_grants and set_workflow_active of workflow_publisher.py).     *)
(*                                                                         *)
(* A save is one transaction that locks the flow's row.  What follows it,  *)
(* and every change of roles, is a row of statements of their own: the     *)
(* roles are read, worked out and written one by one, beside other         *)
(* requests.  A flow is known by its intent_key; its steps are one of a    *)
(* few texts.                                                              *)
(***************************************************************************)
EXTENDS Naturals, Sequences, FiniteSets

CONSTANTS
  Flows,
  Blocks,             \* the flows of kind "block", which other flows run
  Roles,              \* at least one
  Admins,             \* admins with the panel open
  Texts,              \* what the steps of a flow may be
  Needs,              \* Needs[t]: the permissions its require_permission steps ask for
  Uses,               \* Uses[t]: the blocks its run_workflow steps run
  Firsts,             \* how this may begin: the steps of each flow, None if it is made later, and those that are on
  Ticked,             \* Ticked[f]: the roles that may use it then, if it is on
  None,
  MaxRequests,        \* bound: requests that change something
  MaxFaults           \* bound: requests that die half way

Keys == Flows \cup UNION {Needs[t] : t \in Texts}
Kept == [text : Texts, roles : SUBSET Roles]
Made == [text : Texts, from : Nat, plain : BOOLEAN]

\* plain: the version that the plain-words copy in its settings puts in words, 0 for none.
Rows == [version : Nat, text : Texts, on : BOOLEAN, plain : Nat]
\* from: the version its words started from; live: the one it shows as live, to go back to.
Pages == [flow : Flows, base : Nat, from : Nat, live : Nat, plain : BOOLEAN]

Kinds == {"", "save", "create", "roles", "role", "switch", "delete"}
Stages == {"", "save", "create", "base", "granted", "forget", "roles", "others", "grant", "next", "switch", "flip",
           "keep", "remove", "over"}
Steps == UNION {[F -> Texts] : F \in SUBSET Flows}
Tasks == [flow : Flows, text : Texts, wanted : BOOLEAN]

\* What was asked for; what was read of the roles and the other flows; the roles and the flows that are left.
Asks == [
  kind : Kinds, stage : Stages, flow : Flows \cup {None}, base : Nat, from : Nat, plain : BOOLEAN,
  text : Texts \cup {None}, on : BOOLEAN, roles : SUBSET Roles, seen : [Roles -> SUBSET Keys] \cup {None},
  others : Steps \cup {None}, left : SUBSET Roles, role : Roles \cup {None}, todo : SUBSET Tasks]

\* What there is, by its steps, can be put in an order in which each flow comes after those it runs.
InOrder(there) == \E place \in [Flows -> 1..Cardinality(Flows)] :
  \A f \in Flows : there[f] # None => \A g \in Uses[there[f]] : there[g] # None /\ place[g] < place[f]

\* What the constants have to be.
Given ==
  /\ IsFiniteSet(Flows) /\ Blocks \subseteq Flows /\ Roles # {}
  /\ \A t \in Texts : Needs[t] \cap Flows = {} /\ Uses[t] \subseteq Blocks
  /\ Firsts \subseteq [texts : [Flows -> Texts \cup {None}], on : SUBSET Flows]
  /\ \A first \in Firsts : InOrder(first.texts)
  /\ Ticked \in [Flows -> SUBSET Roles] /\ \A f \in Blocks : Ticked[f] = {}
  /\ None \notin Texts /\ None \notin Rows /\ None \notin Pages /\ None \notin Asks
  /\ {MaxRequests, MaxFaults} \subseteq Nat

VARIABLES
  row,          \* row[f]: its row of workflows
  kept,         \* kept[f]: its rows of workflow_versions
  permissions,  \* permissions[r]: the intent keys and finer permissions of a role
  page,         \* page[a]: the flow an admin's editor shows
  request,      \* request[a]: what an admin asked for and how far it is
  requests, faults,
  draft,        \* draft[f]: the version that the plain_draft in its settings started from, 0 for none
  late,         \* history: the flows whose draft was kept by a page that showed an earlier version
  made,         \* history: made[f][v]: how version v came about
  raced         \* history: two requests were under way at once

drafts == <<draft, late>>
history == <<made, raced>>
vars == <<row, kept, permissions, page, request, requests, faults, drafts, history>>

Versions == 1..MaxRequests + 2

TypeOK ==
  /\ row \in [Flows -> Rows \cup {None}]
  /\ \A f \in Flows : \A v \in DOMAIN kept[f] : v \in Nat /\ kept[f][v] \in Kept
  /\ permissions \in [Roles -> SUBSET Keys]
  /\ page \in [Admins -> Pages \cup {None}]
  /\ request \in [Admins -> Asks \cup {None}]
  /\ requests \in 0..MaxRequests /\ faults \in 0..MaxFaults
  /\ draft \in [Flows -> Nat] /\ late \subseteq Flows
  /\ \A f \in Flows : \A v \in DOMAIN made[f] : made[f][v] \in Made
  /\ raced \in BOOLEAN

Init == \E first \in Firsts :
  LET there == {f \in Flows : first.texts[f] # None}
      text == first.texts
  IN  /\ row = [f \in Flows |->
           IF f \in there THEN [version |-> 1, text |-> text[f], on |-> f \in first.on, plain |-> 0] ELSE None]
      /\ kept = [f \in Flows |-> <<>>]
      /\ permissions = [r \in Roles |->
           UNION {{f} \cup Needs[text[f]] : f \in {g \in there \cap first.on : r \in Ticked[g]}}]
      /\ page = [a \in Admins |-> None]
      /\ request = [a \in Admins |-> None]
      /\ requests = 0 /\ faults = 0
      /\ draft = [f \in Flows |-> 0] /\ late = {}
      /\ made = [f \in Flows |->
           IF f \in there THEN <<[text |-> text[f], from |-> 0, plain |-> FALSE]>> ELSE <<>>]
      /\ raced = FALSE

-----------------------------------------------------------------------------
(* What a request reads *)

There(f) == row[f] # None
Holders(f) == {r \in Roles : f \in permissions[r]}

\* where_used: the flows whose steps run f.
UsedBy(f) == {g \in Flows \ {f} : There(g) /\ f \in Uses[row[g].text]}
SwitchedOn(S) == {g \in S : There(g) /\ row[g].on}

\* validate_steps: the blocks that the steps t of f run are there and have steps, and none runs f.
Fit(f, t) ==
  LET below[n \in 0..Cardinality(Flows)] ==
        IF n = 0 THEN Uses[t]
        ELSE below[n - 1] \cup UNION {Uses[row[g].text] : g \in {h \in below[n - 1] \ {f} : There(h)}}
  IN  f \notin below[Cardinality(Flows)] /\ \A g \in Uses[t] : There(g)

\* Every request starts with what it was sent; the rest is filled in on its way.
Sent == [kind |-> "", stage |-> "", flow |-> None, base |-> 0, from |-> 0, plain |-> FALSE, text |-> None, on |-> FALSE,
         roles |-> {}, seen |-> None, others |-> None, left |-> {}, role |-> None, todo |-> {}]

Free(a) == request[a] = None /\ requests < MaxRequests

Ask(a, what) ==
  /\ request' = [request EXCEPT ![a] = what]
  /\ requests' = requests + 1
  /\ raced' = (raced \/ \E b \in Admins \ {a} : request[b] # None)

At(a, stage) == request[a] # None /\ request[a].stage = stage
GoOn(a, what) == request' = [request EXCEPT ![a] = what]
Over(a) == request' = [request EXCEPT ![a] = None]

-----------------------------------------------------------------------------
(* The editor *)

Shows(a, p) == page' = [page EXCEPT ![a] = p]
Leave(a) == Shows(a, None)

\* GET /workflows/{id}: the steps, and the version they are.
OpenEditor(a, f) ==
  /\ Free(a) /\ page[a] = None /\ There(f)
  /\ LET v == row[f].version
     IN  Shows(a, [flow |-> f, base |-> v, from |-> v, live |-> v, plain |-> FALSE])
  /\ UNCHANGED <<row, kept, permissions, request, requests, faults, drafts, history>>

\* GET /build/{id}: the draft, or else the plain-words copy, and the version of the flow.
OpenPlain(a, f) ==
  /\ Free(a) /\ page[a] = None /\ There(f)
  /\ row[f].plain # 0
  /\ Shows(a, [flow |-> f, base |-> row[f].version, from |-> IF draft[f] # 0 THEN draft[f] ELSE row[f].plain,
               live |-> row[f].plain, plain |-> TRUE])
  /\ raced' = (raced \/ \E b \in Admins \ {a} : request[b] # None)
  /\ UNCHANGED <<row, kept, permissions, request, requests, faults, drafts, made>>

\* The flow in an admin's plain editor has its plain words still: what is done to its draft finds them.
InPlain(a) == page[a] # None /\ page[a].plain /\ There(page[a].flow) /\ row[page[a].flow].plain # 0

\* PUT /build/{id}/draft, a moment after each change: whatever version the flow has by now.  POST restore makes the
\* words of an earlier version the draft, in place of those that the page shows as live.
KeepDraft(a) ==
  /\ InPlain(a)
  /\ LET p == page[a]
     IN  \E from \in {p.from, p.live} :
         /\ draft' = [draft EXCEPT ![p.flow] = from]
         /\ late' = IF p.base = row[p.flow].version THEN late ELSE late \cup {p.flow}
         /\ Shows(a, [p EXCEPT !.from = from])
  /\ UNCHANGED <<row, kept, permissions, request, requests, faults, history>>

\* DELETE /build/{id}/draft: thrown away, or changed back to what is live.
DropDraft(a) ==
  /\ InPlain(a)
  /\ LET p == page[a]
     IN  /\ draft' = [draft EXCEPT ![p.flow] = 0]
         /\ Shows(a, [p EXCEPT !.from = p.live])
  /\ UNCHANGED <<row, kept, permissions, request, requests, faults, late, history>>

\* The editor is left without saving: what it changed stays in the draft, if it was kept.
Close(a) ==
  /\ page[a] # None
  /\ Leave(a)
  /\ UNCHANGED <<row, kept, permissions, request, requests, faults, drafts, history>>

\* POST /build/{id}/convert: one statement that keeps the copy only if the version is the one it was made from.
Convert(f) ==
  /\ There(f) /\ row[f].plain = 0
  /\ \E a \in Admins : Free(a) /\ page[a] = None
  /\ row' = [row EXCEPT ![f].plain = row[f].version]
  /\ UNCHANGED <<kept, permissions, page, request, requests, faults, drafts, history>>

\* PUT definition, POST /build/save: the other flows are read and the steps checked against them.
AskSave(a, t) ==
  /\ Free(a) /\ page[a] # None
  /\ LET p == page[a]
     IN  /\ Fit(p.flow, t)
         /\ Ask(a, [Sent EXCEPT !.kind = "save", !.stage = "save", !.flow = p.flow, !.base = p.base, !.from = p.from,
                    !.plain = p.plain, !.text = t])
  /\ Leave(a)
  /\ UNCHANGED <<row, kept, permissions, faults, drafts, made>>

\* POST restore: the steps of a version that was kept.
AskRestore(a, v) ==
  /\ Free(a) /\ page[a] # None
  /\ LET p == page[a]
     IN  /\ ~p.plain /\ v \in DOMAIN kept[p.flow] /\ v # p.base
         /\ Fit(p.flow, kept[p.flow][v].text)
         /\ Ask(a, [Sent EXCEPT !.kind = "save", !.stage = "save", !.flow = p.flow, !.base = p.base, !.from = p.base,
                    !.text = kept[p.flow][v].text])
  /\ Leave(a)
  /\ UNCHANGED <<row, kept, permissions, faults, drafts, made>>

\* POST /workflows; "Build with AI" then saves the new flow once more, with its plain words.
AskCreate(a, f, t, plain) ==
  /\ Free(a) /\ made[f] = <<>> /\ (plain => f \notin Blocks)
  /\ Fit(f, t)
  /\ Ask(a, [Sent EXCEPT !.kind = "create", !.stage = "create", !.flow = f, !.base = 1, !.from = 1, !.plain = plain, !.text = t])
  /\ UNCHANGED <<row, kept, permissions, page, faults, drafts, made>>

\* A row of workflow_versions beside those that are kept.
With(k, v, c) == [w \in DOMAIN k \cup {v} |-> IF w = v THEN c ELSE k[w]]

\* The key of the new flow is looked for in the transaction that inserts it: another one if this was taken meanwhile.
FreeKeys(q) ==
  IF made[q.flow] = <<>> THEN {q.flow} ELSE {f \in Flows : made[f] = <<>> /\ (f \in Blocks <=> q.flow \in Blocks)}

\* Switched off until an admin has looked at it, unless it is a block.
Create(a) ==
  /\ At(a, "create")
  /\ LET q == request[a]
     IN  \E f \in FreeKeys(q) :
         /\ row' = [row EXCEPT ![f] = [version |-> 1, text |-> q.text, on |-> f \in Blocks, plain |-> 0]]
         /\ draft' = [draft EXCEPT ![f] = 0]
         /\ kept' = [kept EXCEPT ![f] = With(@, 1, [text |-> q.text, roles |-> Holders(f)])]
         /\ made' = [made EXCEPT ![f] = <<[text |-> q.text, from |-> 0, plain |-> FALSE]>>]
         /\ IF q.plain THEN GoOn(a, [q EXCEPT !.stage = "base", !.flow = f]) ELSE Over(a)
  /\ UNCHANGED <<permissions, page, requests, faults, late, raced>>

\* "Build with AI" reads which version the flow it made has by now; its words say the first.
ReadBase(a) ==
  /\ At(a, "base")
  /\ LET q == request[a]
     IN  IF There(q.flow) THEN GoOn(a, [q EXCEPT !.stage = "save", !.base = row[q.flow].version]) ELSE Over(a)
  /\ UNCHANGED <<row, kept, permissions, page, requests, faults, drafts, history>>

\* Two at once that found the same key: the insert of the later one fails.
CreateFails(a) ==
  /\ At(a, "create") /\ made[request[a].flow] # <<>>
  /\ Over(a)
  /\ UNCHANGED <<row, kept, permissions, page, requests, faults, drafts, history>>

\* Mutant: the row that is replaced is not kept.
SnapshotNewOnly(f, r, holders) == kept[f]

\* _snapshot: the flow as it stands and the roles that have it, unless this version was kept already.
Snapshot(f, r, holders) ==
  IF r.version \in DOMAIN kept[f] THEN kept[f]
  ELSE With(kept[f], r.version, [text |-> r.text, roles |-> holders])

\* Nobody saved since the editor was opened.
Agrees(q) == row[q.flow].version = q.base

\* _save, unless a role was given a block.  A flow just made has its steps already and is given its words only.
Save(a) ==
  /\ At(a, "save")
  /\ LET q == request[a]
         f == q.flow
     IN  /\ There(f) /\ Agrees(q) /\ (f \in Blocks => Holders(f) = {})
         /\ LET v == row[f].version + 1
                text == IF q.kind = "create" THEN row[f].text ELSE q.text
                words == IF q.kind = "create" /\ q.base # q.from THEN q.from ELSE v
                new == [row[f] EXCEPT !.version = v, !.text = text, !.plain = IF q.plain THEN words ELSE @]
            IN  /\ row' = [row EXCEPT ![f] = new]
                /\ draft' = IF q.plain THEN [draft EXCEPT ![f] = 0] ELSE draft
                /\ kept' = [kept EXCEPT ![f] =
                     With(Snapshot(f, row[f], Holders(f)), v, [text |-> new.text, roles |-> Holders(f)])]
                /\ made' = [made EXCEPT ![f] = Append(@, [text |-> text, from |-> q.from, plain |-> q.plain])]
                /\ GoOn(a, [q EXCEPT !.stage = "granted", !.text = text])
  /\ UNCHANGED <<permissions, page, requests, faults, late, raced>>

\* "Someone saved it while you were editing", a block that a role was given, or the flow is gone.
Refuse(a) ==
  /\ At(a, "save")
  /\ LET f == request[a].flow
     IN  ~(There(f) /\ Agrees(request[a]) /\ (f \in Blocks => Holders(f) = {}))
  /\ Over(a)
  /\ UNCHANGED <<row, kept, permissions, page, requests, faults, drafts, history>>

\* _granted_roles, after the transaction: those who have it are to keep it, and get what its new steps need.
ReadGranted(a) ==
  /\ At(a, "granted")
  /\ GoOn(a, [request[a] EXCEPT !.stage = "roles", !.roles = Holders(request[a].flow)])
  /\ UNCHANGED <<row, kept, permissions, page, requests, faults, drafts, history>>

\* _forget_plain: the Advanced editor changed the steps, so the plain words no longer say them, nor does the draft.
ForgetPlain(a) ==
  /\ At(a, "forget")
  /\ LET f == request[a].flow
     IN  /\ row' = IF There(f) THEN [row EXCEPT ![f].plain = 0] ELSE row
         /\ draft' = [draft EXCEPT ![f] = 0]
  /\ Over(a)
  /\ UNCHANGED <<kept, permissions, page, requests, faults, late, history>>

-----------------------------------------------------------------------------
(* Who may use it: sync_role_grants *)

\* The roles are read ...
ReadRoles(a) ==
  /\ At(a, "roles")
  /\ GoOn(a, [request[a] EXCEPT !.stage = "others", !.seen = permissions])
  /\ UNCHANGED <<row, kept, permissions, page, requests, faults, drafts, history>>

\* ... then the steps of the other flows that are switched on ...
ReadOthers(a) ==
  /\ At(a, "others")
  /\ LET f == request[a].flow
         others == SwitchedOn(Flows \ {f})
     IN  GoOn(a, [request[a] EXCEPT !.stage = "grant", !.left = Roles, !.others = [g \in others |-> row[g].text]])
  /\ UNCHANGED <<row, kept, permissions, page, requests, faults, drafts, history>>

Required(q) == {q.flow} \cup Needs[q.text]

\* Mutant: a permission is taken although another flow of the role asks for it.
StillNeededNever(q, r) == {}

\* What role r needs for the other flows it had when the roles were read.
StillNeeded(q, r) == UNION {{g} \cup Needs[q.others[g]] : g \in DOMAIN q.others \cap q.seen[r]}

\* What comes after the last role.
Then(q) ==
  CASE q.kind = "save" /\ ~q.plain -> "forget"
    [] q.kind = "switch" -> "flip"
    [] q.kind = "delete" -> "remove"
    [] q.kind = "role" -> "next"
    [] OTHER -> "over"

\* ... and each role is written: what it has not got, or has too much, going by what was read.
Grant(a) == \E r \in Roles :
  /\ At(a, "grant")
  /\ LET q == request[a]
     IN  /\ r \in q.left
         /\ permissions' = [permissions EXCEPT ![r] =
              IF r \in q.roles THEN @ \cup (Required(q) \ q.seen[r])
              ELSE @ \ ((Required(q) \cap q.seen[r]) \ StillNeeded(q, r))]
         /\ IF q.left # {r} THEN GoOn(a, [request[a] EXCEPT !.left = q.left \ {r}])
            ELSE IF Then(q) = "over" THEN Over(a)
            ELSE GoOn(a, [request[a] EXCEPT !.stage = Then(q), !.left = {}, !.seen = None, !.others = None])
  /\ UNCHANGED <<row, kept, page, requests, faults, drafts, history>>

\* PUT /workflows/{id}/roles: exactly these roles.
AskRoles(a, f, R) ==
  /\ Free(a) /\ There(f)
  /\ f \in Blocks => R = {}
  /\ Ask(a, [Sent EXCEPT !.kind = "roles", !.stage = "roles", !.flow = f, !.text = row[f].text, !.roles = R])
  /\ UNCHANGED <<row, kept, permissions, page, faults, drafts, made>>

\* PATCH /roles/{id}: the flows the role can start, as _apply_flows reads them.
AskRole(a, r, wanted) ==
  /\ Free(a)
  /\ \A f \in wanted : There(f)
  /\ Ask(a, [Sent EXCEPT !.kind = "role", !.stage = "next", !.role = r,
             !.todo = {[flow |-> f, text |-> row[f].text, wanted |-> f \in wanted] :
                        f \in {g \in Flows \ Blocks : There(g)}}])
  /\ UNCHANGED <<row, kept, permissions, page, faults, drafts, made>>

\* One flow after the other: the roles that have it now, with this one or without it.
NextFlow(a) == \E x \in request[a].todo :
  LET q == request[a]
      has == x.flow \in permissions[q.role]
  IN  /\ IF has = x.wanted
         THEN GoOn(a, [request[a] EXCEPT !.todo = q.todo \ {x}])
         ELSE GoOn(a, [request[a] EXCEPT !.todo = q.todo \ {x}, !.stage = "roles", !.flow = x.flow, !.text = x.text,
                       !.roles = IF x.wanted THEN Holders(x.flow) \cup {q.role} ELSE Holders(x.flow) \ {q.role}])
      /\ UNCHANGED <<row, kept, permissions, page, requests, faults, drafts, made, raced>>

RoleFlow(a) == At(a, "next") /\ NextFlow(a)

RoleDone(a) ==
  /\ At(a, "next") /\ request[a].todo = {}
  /\ Over(a)
  /\ UNCHANGED <<row, kept, permissions, page, requests, faults, drafts, history>>

-----------------------------------------------------------------------------
(* Switching and deleting *)

\* POST active: a block that flows in use run is not switched off.
AskSwitch(a, f) ==
  /\ Free(a) /\ There(f)
  /\ row[f].on => SwitchedOn(UsedBy(f)) = {}
  /\ Ask(a, [Sent EXCEPT !.kind = "switch", !.stage = "switch", !.flow = f, !.on = ~row[f].on])
  /\ UNCHANGED <<row, kept, permissions, page, faults, drafts, made>>

Latest(f) == IF kept[f] = <<>> THEN {} ELSE kept[f][CHOOSE v \in DOMAIN kept[f] : \A w \in DOMAIN kept[f] : w <= v].roles

\* set_workflow_active: off takes it from every role, on gives it to those of the newest version that was kept.
SwitchReads(a) ==
  /\ At(a, "switch")
  /\ LET q == request[a]
         f == q.flow
     IN  IF There(f) /\ row[f].on # q.on
         THEN /\ GoOn(a, [request[a] EXCEPT !.stage = "roles", !.text = row[f].text, !.roles = IF q.on THEN Latest(f) ELSE {}])
         ELSE Over(a)
  /\ UNCHANGED <<row, kept, permissions, page, requests, faults, drafts, made, raced>>

Flip(a) ==
  /\ At(a, "flip")
  /\ LET q == request[a]
     IN  row' = IF There(q.flow) THEN [row EXCEPT ![q.flow].on = q.on] ELSE row
  /\ Over(a)
  /\ UNCHANGED <<kept, permissions, page, requests, faults, drafts, history>>

\* A flow that is switched on, or that others run, is not deleted.
MayGo(f) == ~row[f].on /\ UsedBy(f) = {}

\* DELETE: the row as it is read here is what is kept of it.
AskDelete(a, f) ==
  /\ Free(a) /\ There(f)
  /\ MayGo(f)
  /\ Ask(a, [Sent EXCEPT !.kind = "delete", !.stage = "keep", !.flow = f, !.text = row[f].text, !.base = row[f].version])
  /\ UNCHANGED <<row, kept, permissions, page, faults, drafts, made>>

\* A copy in the history, then every role loses it ...
Keep(a) ==
  /\ At(a, "keep")
  /\ LET q == request[a]
     IN  kept' = [kept EXCEPT ![q.flow] = Snapshot(q.flow, [version |-> q.base, text |-> q.text], Holders(q.flow))]
  /\ GoOn(a, [request[a] EXCEPT !.stage = "roles", !.roles = {}])
  /\ UNCHANGED <<row, permissions, page, requests, faults, drafts, history>>

\* ... then the row goes, whatever it is by now.
Remove(a) ==
  /\ At(a, "remove")
  /\ row' = [row EXCEPT ![request[a].flow] = None]
  /\ draft' = [draft EXCEPT ![request[a].flow] = 0]
  /\ Over(a)
  /\ UNCHANGED <<kept, permissions, page, requests, faults, late, history>>

-----------------------------------------------------------------------------
\* The process stops, or the connection of the admin's request is lost.
Cut(a) ==
  /\ request[a] # None /\ faults < MaxFaults
  /\ faults' = faults + 1
  /\ Over(a)
  /\ UNCHANGED <<row, kept, permissions, page, requests, drafts, history>>

Paging(a) ==
  \/ \E f \in Flows : OpenEditor(a, f) \/ OpenPlain(a, f)
  \/ KeepDraft(a) \/ DropDraft(a) \/ Close(a)

Asking(a) ==
  \/ \E t \in Texts : AskSave(a, t)
  \/ \E v \in Versions : AskRestore(a, v)
  \/ \E f \in Flows, t \in Texts, plain \in BOOLEAN : AskCreate(a, f, t, plain)
  \/ \E f \in Flows, R \in SUBSET Roles : AskRoles(a, f, R)
  \/ \E r \in Roles, W \in SUBSET (Flows \ Blocks) : AskRole(a, r, W)
  \/ \E f \in Flows : AskSwitch(a, f) \/ AskDelete(a, f)

Working(a) ==
  \/ Create(a) \/ CreateFails(a) \/ ReadBase(a) \/ Save(a) \/ Refuse(a) \/ ReadGranted(a) \/ ForgetPlain(a)
  \/ ReadRoles(a) \/ ReadOthers(a) \/ Grant(a) \/ RoleFlow(a) \/ RoleDone(a)
  \/ SwitchReads(a) \/ Flip(a) \/ Keep(a) \/ Remove(a)

Next ==
  \/ \E f \in Flows : Convert(f)
  \/ \E a \in Admins : Paging(a) \/ Asking(a) \/ Working(a) \/ Cut(a)

Spec == Init /\ [][Next]_vars

-----------------------------------------------------------------------------
(* Properties *)

Idle == \A a \in Admins : request[a] = None
Calm == ~raced /\ faults = 0

\* Nothing is lost by saving, restoring or deleting: every version that is no longer the flow's is kept with its steps.
ReplacedIsKept == \A f \in Flows :
  LET now == IF There(f) THEN row[f].version ELSE Len(made[f]) + 1
  IN  \A v \in DOMAIN made[f] : v < now => v \in DOMAIN kept[f] /\ kept[f][v].text = made[f][v].text

BuildsOn(f, v) == made[f][v].from = v - 1

\* An edit starts from the version it replaces, so nobody's change is lost: always in the Advanced editor; in the
\* plain editor as long as no request died half way, none was under way beside another or beside the opening, and no
\* page that showed an earlier version of the flow went on keeping its draft.
EditsBuildOnTheLast == \A f \in Flows : \A v \in DOMAIN made[f] :
  v > 1 => BuildsOn(f, v) \/ (made[f][v].plain /\ (~Calm \/ f \in late))

\* A draft is no way round "Someone saved it while you were editing": TLC refutes it, a draft has no version of its
\* own and is shown with that of the flow.
DraftsBuildOnTheLast == Calm => \A f \in Flows : \A v \in DOMAIN made[f] : v > 1 => BuildsOn(f, v)

\* Whoever has a flow may do what its own steps ask for, and a flow that is gone is nobody's: between requests, as
\* long as they came one at a time.
TickedCanUse == Calm /\ Idle =>
  \A f \in Flows : \A r \in Holders(f) : There(f) /\ (row[f].on => Needs[row[f].text] \subseteq permissions[r])

\* The flows that f runs, itself and through others.
Reached(f) ==
  LET down[n \in 0..Cardinality(Flows)] ==
        IF n = 0 THEN {f} ELSE down[n - 1] \cup UNION {Uses[row[g].text] : g \in {h \in down[n - 1] : There(h)}}
  IN  {g \in down[Cardinality(Flows)] : There(g)}

\* "Ticking a role on here means this role can actually use this workflow end to end" (sync_role_grants): TLC refutes
\* it, what the steps of the blocks ask for is nobody's to give.
UsesEndToEnd == Calm /\ Idle =>
  \A f \in Flows : \A r \in Holders(f) : There(f) /\ row[f].on =>
    \A g \in Reached(f) : Needs[row[g].text] \subseteq permissions[r]

\* As long as requests came one at a time, the blocks a flow runs are there and none runs itself through others.
BlocksAreThere == ~raced => InOrder([f \in Flows |-> IF There(f) THEN row[f].text ELSE None])

\* "Unticking this workflow must not collaterally break a different workflow that happens to share the same
\* permission string" (sync_role_grants): also with requests at once.
SharedStays == faults = 0 /\ Idle =>
  \A f \in Flows : There(f) /\ row[f].on => \A r \in Holders(f) : Needs[row[f].text] \subseteq permissions[r]
=============================================================================
