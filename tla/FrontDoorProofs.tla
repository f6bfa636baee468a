--------------------------- MODULE FrontDoorProofs ---------------------------
(***************************************************************************)
(* What holds of the front door (FrontDoor, the Door of Chat) for any      *)
(* chats, accounts, addresses and number of codes and faults: the types;   *)
(* that a chat is bound and an address saved only by a code that was       *)
(* mailed for that account to that address; that every guess is counted.   *)
(*                                                                         *)
(* The first rests on what a turn may count on between its own statements, *)
(* while other chats ask for codes of the same account: TurnFits.          *)
(***************************************************************************)
EXTENDS Chat, Sequences, FiniteSetTheorems, TLAPS

-----------------------------------------------------------------------------
(* The invariant *)

Asking == {"ask", "void", "make", "mail", "note"}
Found == {"burn", "count", "compare", "use", "act", "settle"}  \* the stages in which a turn has a code in hand

\* The codes of a that are not used are all mailed to e.
AllTo(a, e) == \A i \in 1..Len(tokens) : tokens[i].user = a /\ ~tokens[i].used => tokens[i].to = e
NoneLeft(a) == \A i \in 1..Len(tokens) : tokens[i].user = a => tokens[i].used

\* While a person without an address sets one up, nobody else asks for codes of the account, so the live ones are
\* for the address of this turn.
SettingUp(c, t) ==
  /\ t.to \in Addresses
  /\ t.pc # "settle" => account[t.user].chat = c /\ account[t.user].email = None
  /\ t.pc \in Asking => setup[t.user] = None
  /\ t.pc = "make" => NoneLeft(t.user)
  /\ t.pc \notin {"ask", "void", "make", "settle"} => AllTo(t.user, t.to)

\* The address a code in the hand of turn t was mailed to.
SentTo(t) == IF t.goal = "setup" THEN t.to ELSE account[t.user].email

\* What turn t of chat c counts on.
TurnFits(c, t) ==
  /\ account[t.user].made
  /\ t.goal # "setup" => account[t.user].email # None
  /\ t.goal = "setup" => SettingUp(c, t)
  /\ t.goal = "signup" => t.pc \in Asking
  /\ t.pc \in Asking => t.to = SentTo(t)
  /\ t.pc \in Found => t.tok \in 1..Len(tokens) /\ tokens[t.tok].user = t.user /\ tokens[t.tok].to = SentTo(t)
  /\ t.pc \in {"act", "settle"} => t.tok \in entered[c]

TurnsFit == \A c \in Chats : turn[c] # None => TurnFits(c, turn[c])

\* Codes are of accounts that are there, and a live one was mailed to the address of its account, if it has one.
TokensFit == \A i \in 1..Len(tokens) : LET a == tokens[i].user IN
  account[a].made /\ (~tokens[i].used /\ account[a].email # None => tokens[i].to = account[a].email)

\* A session that waits for a code: of an account with an address, or for the address it is to get.
SessionsFit ==
  /\ \A c \in Chats : link[c] # None /\ link[c].state = "code" =>
       account[link[c].user].made /\ account[link[c].user].email # None
  /\ \A a \in Accounts : setup[a] # None /\ account[a].email = None => AllTo(a, setup[a])

IInv == Door!TypeOK /\ TurnsFit /\ TokensFit /\ SessionsFit

\* Who is to compare code i, and who read its count before another guess was counted.
Comparing(i) == {c \in Chats : turn[c] # None /\ turn[c].pc = "compare" /\ turn[c].tok = i}
Counting(i) == {c \in Chats : turn[c] # None /\ turn[c].pc = "count" /\ turn[c].tok = i}

CodeCounted(i) ==
  /\ tokens[i].tried + Cardinality(Comparing(i)) <= tokens[i].attempts
  /\ tokens[i].attempts + Cardinality(Counting(i)) <= MaxAttempts + Cardinality(Chats) - 1

Counted == \A i \in 1..Len(tokens) : CodeCounted(i)

-----------------------------------------------------------------------------
(* A step of one chat, seen by the others *)

\* Accounts stay, and so does the address of one.
AccountsKept == \A b \in Accounts : account[b].made =>
  account'[b].made /\ (account[b].email # None => account'[b].email = account[b].email)

\* Codes stay what they are, and used ones used.
TokensKept ==
  /\ Len(tokens) <= Len(tokens')
  /\ \A i \in 1..Len(tokens) :
       /\ tokens'[i].user = tokens[i].user /\ tokens'[i].to = tokens[i].to
       /\ tokens[i].used => tokens'[i].used

EnteredKept == \A d \in Chats : entered[d] \subseteq entered'[d]

\* New codes are for the address of their account, or for the one chat c sets up.
NewTokensFit(c) == \A i \in (Len(tokens) + 1)..Len(tokens') : LET a == tokens'[i].user IN
  /\ account[a].made
  /\ account[a].email # None => tokens'[i].to = account[a].email
  /\ account[a].email = None => account[a].chat = c /\ account'[a] = account[a] /\ setup[a] = None /\ setup' = setup

\* Only chat c gives its account the first address, the one its live codes were mailed to.
NewAddressFits(c) == \A b \in Accounts : account[b].made /\ account[b].email = None =>
  account'[b] = account[b] \/ (account[b].chat = c /\ AllTo(b, account'[b].email))

\* Only chat c gets a session to set up an address, the one the live codes were mailed to.
NewSetUpFits(c) == \A a \in Accounts :
  \/ setup'[a] \in {setup[a], None}
  \/ account[a].chat = c /\ account[a].made /\ AllTo(a, setup'[a]) /\ tokens' = tokens

NewLinkFits == \A d \in Chats :
  \/ link'[d] \in {link[d], None}
  \/ link'[d].state # "code"
  \/ account[link'[d].user].made /\ account[link'[d].user].email # None

LEMMA AllToStays ==
  ASSUME NEW a, NEW e, AllTo(a, e), TokensKept,
         \A i \in (Len(tokens) + 1)..Len(tokens') : tokens'[i].user # a,
         Len(tokens) \in Nat, Len(tokens') \in Nat
  PROVE  AllTo(a, e)'
BY DEF AllTo, TokensKept

LEMMA NoneLeftStays ==
  ASSUME NEW a, NoneLeft(a), TokensKept,
         \A i \in (Len(tokens) + 1)..Len(tokens') : tokens'[i].user # a,
         Len(tokens) \in Nat, Len(tokens') \in Nat
  PROVE  NoneLeft(a)'
BY DEF NoneLeft, TokensKept

LEMMA Elements ==
  ASSUME NEW S, NEW s \in Seq(S)
  PROVE  Len(s) \in Nat /\ DOMAIN s = 1..Len(s) /\ \A i \in 1..Len(s) : s[i] \in S
OBVIOUS

\* The turn of another chat still fits.
LEMMA OtherTurnFits ==
  ASSUME IInv, Door!TypeOK', NEW c, NEW d \in Chats, d # c, turn[d] # None, turn'[d] = turn[d],
         AccountsKept, TokensKept, EnteredKept, NewTokensFit(c), NewAddressFits(c), NewSetUpFits(c)
  PROVE  TurnFits(d, turn[d])'
<1> PICK t : t = turn[d]
  OBVIOUS
<1>1. t \in Door!Turns /\ t.user \in Accounts /\ TurnFits(d, t)
  BY DEF IInv, Door!TypeOK, TurnsFit, Door!Turns
<1>2. account[t.user].made /\ account'[t.user].made
  BY <1>1 DEF TurnFits, AccountsKept
<1>3. Len(tokens) \in Nat /\ Len(tokens') \in Nat
  BY DEF IInv, Door!TypeOK
<1>4. ASSUME t.goal = "setup", t.pc # "settle" PROVE SettingUp(d, t)'
  <2>1. SettingUp(d, t) /\ account[t.user].chat = d /\ account[t.user].email = None
    BY <1>1, <1>4 DEF TurnFits, SettingUp
  <2>2. account'[t.user] = account[t.user]
    BY <1>1, <1>2, <2>1 DEF NewAddressFits
  <2>3. \A i \in (Len(tokens) + 1)..Len(tokens') : tokens'[i].user # t.user
    BY <2>1 DEF NewTokensFit
  <2>4. setup[t.user] = None => setup'[t.user] = None
    BY <1>1, <2>1 DEF NewSetUpFits
  <2>5. NoneLeft(t.user) => NoneLeft(t.user)'
    BY <1>3, <2>3, NoneLeftStays
  <2>6. ASSUME AllTo(t.user, t.to) PROVE AllTo(t.user, t.to)'
    BY <1>3, <2>3, <2>6, AllToStays
  <2> QED BY <2>1, <2>2, <2>4, <2>5, <2>6 DEF SettingUp
<1>5. t.goal = "setup" => SettingUp(d, t)'
  BY <1>1, <1>4 DEF TurnFits, SettingUp, Asking
<1>6. account[t.user].email # None => account'[t.user].email = account[t.user].email
  BY <1>1, <1>2 DEF AccountsKept
<1>7. t.goal # "setup" => account'[t.user].email # None /\ SentTo(t)' = SentTo(t)
  BY <1>1, <1>6 DEF TurnFits, SentTo
<1>8. SentTo(t)' = SentTo(t)
  BY <1>7 DEF SentTo
<1>9. t.pc \in Found => t.tok \in 1..Len(tokens') /\ tokens'[t.tok].user = t.user /\ tokens'[t.tok].to = SentTo(t)
  BY <1>1, <1>3 DEF TurnFits, TokensKept
<1>10. t.pc \in {"act", "settle"} => t.tok \in entered'[d]
  BY <1>1 DEF TurnFits, EnteredKept
<1>11. TurnFits(d, t)'
  BY <1>1, <1>2, <1>5, <1>7, <1>8, <1>9, <1>10 DEF TurnFits
<1>12. QED  BY <1>11

\* What a step of chat c has to do so that everything fits again.
LEMMA StepFits ==
  ASSUME IInv, Door!TypeOK', NEW c, \A d \in Chats \ {c} : turn'[d] = turn[d],
         c \in Chats /\ turn'[c] # None => TurnFits(c, turn[c])',
         AccountsKept, TokensKept, EnteredKept, NewTokensFit(c), NewAddressFits(c), NewSetUpFits(c), NewLinkFits
  PROVE  IInv'
<1>1. /\ Len(tokens) \in Nat /\ Len(tokens') \in Nat
      /\ \A i \in 1..Len(tokens) : tokens[i].user \in Accounts
      /\ \A i \in 1..Len(tokens') : tokens'[i].user \in Accounts
  <2>1. tokens \in Seq(Door!Tokens) /\ tokens' \in Seq(Door!Tokens)
    BY DEF IInv, Door!TypeOK
  <2>2. \A x \in Door!Tokens : x.user \in Accounts
    BY DEF Door!Tokens
  <2> QED BY <2>1, <2>2, Elements
<1>2. TurnsFit'
  <2> SUFFICES ASSUME NEW d \in Chats, turn'[d] # None PROVE TurnFits(d, turn[d])'
    BY DEF TurnsFit
  <2>1. CASE d = c
    BY <2>1
  <2>2. CASE d # c
    <3>1. turn'[d] = turn[d] /\ turn[d] # None
      BY <2>2
    <3> QED BY <2>2, <3>1, OtherTurnFits
  <2> QED BY <2>1, <2>2
<1>3. TokensFit'
  <2> SUFFICES ASSUME NEW i \in 1..Len(tokens')
               PROVE  /\ account'[tokens'[i].user].made
                      /\ ~tokens'[i].used /\ account'[tokens'[i].user].email # None =>
                           tokens'[i].to = account'[tokens'[i].user].email
    BY DEF TokensFit
  <2> PICK a : a = tokens'[i].user
    OBVIOUS
  <2>1. CASE i \in 1..Len(tokens)
    <3>1. a = tokens[i].user /\ a \in Accounts /\ account[a].made /\ tokens'[i].to = tokens[i].to
      BY <1>1, <2>1 DEF TokensKept, IInv, TokensFit
    <3>2. account'[a].made
      BY <3>1 DEF AccountsKept
    <3>3. ASSUME ~tokens'[i].used, account[a].email # None PROVE tokens'[i].to = account'[a].email
      BY <2>1, <3>1, <3>3 DEF TokensKept, IInv, TokensFit, AccountsKept
    <3>4. ASSUME ~tokens'[i].used, account'[a].email # None, account[a].email = None
          PROVE  tokens'[i].to = account'[a].email
      <4>1. AllTo(a, account'[a].email)
        BY <3>1, <3>4 DEF NewAddressFits
      <4>2. ~tokens[i].used
        BY <2>1, <3>4 DEF TokensKept
      <4> QED BY <2>1, <3>1, <4>1, <4>2 DEF AllTo
    <3> QED BY <3>2, <3>3, <3>4
  <2>2. CASE i \in (Len(tokens) + 1)..Len(tokens')
    <3>1. a \in Accounts
      BY <1>1
    <3>2. /\ account[a].made
          /\ account[a].email # None => tokens'[i].to = account[a].email
          /\ account[a].email = None => account'[a] = account[a]
      BY <2>2 DEF NewTokensFit
    <3> QED BY <3>1, <3>2 DEF AccountsKept
  <2> QED BY <1>1, <2>1, <2>2
<1>4. \A d \in Chats : link'[d] # None /\ link'[d].state = "code" =>
        account'[link'[d].user].made /\ account'[link'[d].user].email # None
  <2> SUFFICES ASSUME NEW d \in Chats, link'[d] # None, link'[d].state = "code"
               PROVE  account'[link'[d].user].made /\ account'[link'[d].user].email # None
    OBVIOUS
  <2> PICK a : a = link'[d].user
    OBVIOUS
  <2>1. a \in Accounts
    BY DEF Door!TypeOK, Door!Links
  <2>2. account[a].made /\ account[a].email # None
    BY DEF NewLinkFits, IInv, SessionsFit
  <2> QED BY <2>1, <2>2 DEF AccountsKept
<1>5. \A a \in Accounts : setup'[a] # None /\ account'[a].email = None => AllTo(a, setup[a])'
  <2> SUFFICES ASSUME NEW a \in Accounts, setup'[a] # None, account'[a].email = None PROVE AllTo(a, setup[a])'
    OBVIOUS
  <2> PICK e : e = setup'[a]
    OBVIOUS
  <2>1. CASE ~account[a].made
    <3>1. \A i \in 1..Len(tokens) : tokens[i].user # a
      BY <2>1 DEF IInv, TokensFit
    <3>2. \A i \in (Len(tokens) + 1)..Len(tokens') : tokens'[i].user # a
      BY <2>1 DEF NewTokensFit
    <3>3. AllTo(a, e)'
      BY <1>1, <3>1, <3>2 DEF AllTo, TokensKept
    <3> QED BY <3>3
  <2>2. CASE account[a].made
    <3>1. account[a].email = None
      BY <2>2 DEF AccountsKept
    <3>2. CASE setup'[a] = setup[a]
      <4>1. AllTo(a, e)
        BY <3>1, <3>2 DEF IInv, SessionsFit
      <4>2. \A i \in (Len(tokens) + 1)..Len(tokens') : tokens'[i].user # a
        BY <3>1, <3>2 DEF NewTokensFit
      <4>3. AllTo(a, e)'
        BY <1>1, <4>1, <4>2, AllToStays
      <4> QED BY <4>3
    <3>3. CASE setup'[a] # setup[a]
      <4>1. AllTo(a, e) /\ tokens' = tokens
        BY <3>3 DEF NewSetUpFits
      <4>2. AllTo(a, e)'
        BY <4>1 DEF AllTo
      <4> QED BY <4>2
    <3> QED BY <3>2, <3>3
  <2> QED BY <2>1, <2>2
<1>6. SessionsFit'
  BY <1>4, <1>5 DEF SessionsFit
<1>7. QED  BY <1>2, <1>3, <1>6 DEF IInv

\* A step that changes no account and no code.
LEMMA QuietFits ==
  ASSUME IInv, Door!TypeOK', NEW c, UNCHANGED <<account, tokens, entered>>, \A d \in Chats \ {c} : turn'[d] = turn[d],
         c \in Chats /\ turn'[c] # None => TurnFits(c, turn[c])', NewSetUpFits(c), NewLinkFits
  PROVE  IInv'
<1>1. AccountsKept /\ EnteredKept
  BY DEF AccountsKept, EnteredKept
<1>3. TokensKept
  BY DEF TokensKept, IInv, Door!TypeOK
<1>4. NewAddressFits(c)
  BY DEF NewAddressFits
<1>2. NewTokensFit(c)
  <2>1. Len(tokens) \in Nat /\ (Len(tokens) + 1)..Len(tokens') = {}
    BY DEF IInv, Door!TypeOK
  <2> QED BY <2>1 DEF NewTokensFit
<1>5. QED  BY <1>1, <1>2, <1>3, <1>4, StepFits

-----------------------------------------------------------------------------
(* What a message starts *)

\* A turn that begins, or whatever the turn in hand becomes.
LEMMA TurnGoesOn ==
  ASSUME Door!TypeOK, NEW c \in Chats, NEW t \in Door!Turns \cup {None}, turn' = [turn EXCEPT ![c] = t]
  PROVE  turn' \in [Chats -> Door!Turns \cup {None}] /\ turn'[c] = t /\ \A d \in Chats \ {c} : turn'[d] = turn[d]
BY DEF Door!TypeOK

\* A step that changes no session that waits for a code or an address.
LEMMA TurnOnly ==
  ASSUME IInv, NEW c \in Chats, NEW t \in Door!Turns \cup {None}, turn' = [turn EXCEPT ![c] = t],
         UNCHANGED <<account, start, tokens, link, setup, entered>>,
         recent' \subseteq Accounts, asked' \subseteq Chats, auth' \subseteq Chats, faults' \in Nat,
         t # None => TurnFits(c, t)
  PROVE  IInv'
<1>1. turn' \in [Chats -> Door!Turns \cup {None}] /\ turn'[c] = t /\ \A d \in Chats \ {c} : turn'[d] = turn[d]
  BY TurnGoesOn DEF IInv
<1>2. Door!TypeOK'
  BY <1>1 DEF IInv, Door!TypeOK
<1>3. t # None => TurnFits(c, t)'
  BY DEF TurnFits, SettingUp, SentTo, AllTo, NoneLeft
<1>4. NewSetUpFits(c) /\ NewLinkFits
  BY DEF NewSetUpFits, NewLinkFits
<1>5. QED  BY <1>1, <1>2, <1>3, <1>4, QuietFits

\* A step that changes sessions, and ends the turn of c if it changes a turn.
LEMMA SessionsOnly ==
  ASSUME Door!Given, IInv, NEW c, UNCHANGED <<account, start, tokens, entered>>,
         recent' \subseteq Accounts, asked' \subseteq Chats, auth' \subseteq Chats, faults' \in Nat,
         link' \in [Chats -> Door!Links \cup {None}], setup' \in [Accounts -> Addresses \cup {None}],
         NewLinkFits,
         \/ turn' = turn /\ \A a \in Accounts : setup'[a] \in {setup[a], None}
         \/ turn' = [turn EXCEPT ![c] = None] /\ NewSetUpFits(c)
  PROVE  IInv'
<1>1. Door!TypeOK'
  BY DEF IInv, Door!TypeOK
<1>2. CASE turn' = turn /\ \A a \in Accounts : setup'[a] \in {setup[a], None}
  <2>1. NewSetUpFits(None)
    BY <1>2 DEF NewSetUpFits
  <2>2. None \notin Chats
    BY DEF Door!Given
  <2> QED BY <1>1, <1>2, <2>1, <2>2, QuietFits
<1>3. CASE turn' = [turn EXCEPT ![c] = None] /\ NewSetUpFits(c)
  <2>1. \A d \in Chats \ {c} : turn'[d] = turn[d]
    BY <1>3 DEF IInv, Door!TypeOK
  <2>2. ~(c \in Chats /\ turn'[c] # None)
    BY <1>3 DEF IInv, Door!TypeOK
  <2> QED BY <1>1, <1>3, <2>1, <2>2, QuietFits
<1>4. QED  BY <1>2, <1>3

\* What Begin puts in hand.
Fresh(stop, goal, a, to, typed) == [pc |-> stop, goal |-> goal, user |-> a, to |-> to, typed |-> typed, tok |-> 0]

LEMMA GiveAddress_Fits ==
  ASSUME Door!Given, IInv, NEW c \in Chats, NEW e \in Addresses, Door!GiveAddress(c, e)
  PROVE  IInv'
<1>1. UNCHANGED <<account, start, tokens, recent, setup, asked, auth, entered, faults>> /\ Door!TypeOK
  BY DEF Door!GiveAddress, IInv
<1>2. recent' \subseteq Accounts /\ asked' \subseteq Chats /\ auth' \subseteq Chats /\ faults' \in Nat
  BY <1>1 DEF Door!TypeOK
<1>3. CASE UNCHANGED link /\ \E a \in Door!Unlinked(e, c) : Door!Begin(c, "ask", "link", a, e, 0)
  <2>1. PICK a \in Door!Unlinked(e, c) : Door!Begin(c, "ask", "link", a, e, 0)
    BY <1>3
  <2>2. a \in Accounts /\ account[a].made /\ account[a].email = e /\ e # None
    BY <2>1 DEF Door!Unlinked, Door!Given
  <2> DEFINE t == Fresh("ask", "link", a, e, 0)
  <2>3. t \in Door!Turns /\ turn' = [turn EXCEPT ![c] = t]
    BY <2>1, <2>2 DEF Door!Turns, Door!Stages, Door!Goals, Door!Begin, Fresh
  <2>4. TurnFits(c, t)
    BY <2>2 DEF TurnFits, Asking, Found, SentTo, Fresh
  <2> QED BY <1>1, <1>2, <1>3, <2>3, <2>4, TurnOnly
<1>4. CASE UNCHANGED turn /\ link' = [link EXCEPT ![c] = IF Registers THEN [state |-> "name", email |-> e] ELSE None]
  <2>1. [state |-> "name", email |-> e] \in Door!Links
    BY DEF Door!Links
  <2>2. link' \in [Chats -> Door!Links \cup {None}] /\ setup' \in [Accounts -> Addresses \cup {None}]
    BY <1>1, <1>4, <2>1 DEF Door!TypeOK
  <2>3. NewLinkFits
    BY <1>1, <1>4 DEF NewLinkFits, Door!TypeOK
  <2> QED BY <1>1, <1>2, <1>4, <2>2, <2>3, SessionsOnly
<1>5. QED  BY <1>3, <1>4 DEF Door!GiveAddress, Door!Submit

LEMMA Fill_Fits ==
  ASSUME Door!Given, IInv, NEW c \in Chats, Door!Fill(c)
  PROVE  IInv'
<1>1. UNCHANGED <<account, start, tokens, recent, setup, asked, auth, turn, entered, faults>> /\ Door!TypeOK
  BY DEF Door!Fill, IInv
<1>2. PICK s \in {"role", "confirm"} : link' = [link EXCEPT ![c].state = s]
  BY DEF Door!Fill
<1>3. link[c] \in [state : {"name", "role", "confirm"}, email : Addresses]
  BY <1>1 DEF Door!Fill, Door!InLink, Door!TypeOK, Door!Links
<1>4. link' \in [Chats -> Door!Links \cup {None}] /\ link'[c].state = s
  BY <1>1, <1>2, <1>3 DEF Door!TypeOK, Door!Links
<1>5. NewLinkFits
  BY <1>1, <1>2, <1>4 DEF NewLinkFits, Door!TypeOK
<1>6. QED  BY <1>1, <1>4, <1>5, SessionsOnly DEF Door!TypeOK

LEMMA Abandon_Fits ==
  ASSUME Door!Given, IInv, NEW c \in Chats, Door!Abandon(c)
  PROVE  IInv'
<1>1. UNCHANGED <<account, start, tokens, recent, setup, asked, auth, turn, entered, faults>> /\ Door!TypeOK
  BY DEF Door!Abandon, IInv
<1>2. link' \in [Chats -> Door!Links \cup {None}] /\ NewLinkFits
  BY <1>1 DEF Door!Abandon, Door!TypeOK, NewLinkFits
<1>3. QED  BY <1>1, <1>2, SessionsOnly DEF Door!TypeOK

LEMMA SetUpAddress_Fits ==
  ASSUME Door!Given, IInv, NEW c \in Chats, NEW e \in Addresses, Door!SetUpAddress(c, e)
  PROVE  IInv'
<1>1. UNCHANGED <<account, start, tokens, recent, link, setup, asked, auth, entered, faults>> /\ Door!TypeOK
  BY DEF Door!SetUpAddress, IInv, Door!sessions
<1>2. PICK a \in Door!Known(c) : account[a].email = None /\ setup[a] = None /\ Door!Begin(c, "ask", "setup", a, e, 0)
  BY DEF Door!SetUpAddress
<1> DEFINE t == Fresh("ask", "setup", a, e, 0)
<1>3. t \in Door!Turns /\ turn' = [turn EXCEPT ![c] = t]
  BY <1>2 DEF Door!Turns, Door!Stages, Door!Goals, Door!Begin, Fresh, Door!Known
<1>4. TurnFits(c, t)
  BY <1>2 DEF TurnFits, Asking, Found, SentTo, SettingUp, Fresh, Door!Known
<1>5. QED  BY <1>1, <1>3, <1>4, TurnOnly DEF Door!TypeOK

LEMMA SetUpRetry_Fits ==
  ASSUME Door!Given, IInv, NEW c \in Chats, Door!SetUpRetry(c)
  PROVE  IInv'
<1>1. UNCHANGED <<account, start, tokens, recent, link, asked, auth, turn, entered, faults>> /\ Door!TypeOK
  BY DEF Door!SetUpRetry, IInv
<1>2. PICK a \in Door!Known(c) : setup' = [setup EXCEPT ![a] = None]
  BY DEF Door!SetUpRetry
<1>3. setup' \in [Accounts -> Addresses \cup {None}] /\ \A b \in Accounts : setup'[b] \in {setup[b], None}
  BY <1>1, <1>2 DEF Door!TypeOK
<1>4. link' \in [Chats -> Door!Links \cup {None}] /\ NewLinkFits
  BY <1>1 DEF Door!TypeOK, NewLinkFits
<1>5. QED  BY <1>1, <1>3, <1>4, SessionsOnly DEF Door!TypeOK

LEMMA Secure_Fits ==
  ASSUME Door!Given, IInv, NEW c \in Chats, Door!Secure(c)
  PROVE  IInv'
<1>1. UNCHANGED <<account, start, tokens, recent, link, setup, asked, auth, entered, faults>> /\ Door!TypeOK
  BY DEF Door!Secure, IInv, Door!sessions
<1>2. PICK a \in Door!Known(c) : account[a].email # None /\ Door!Begin(c, "ask", "secure", a, account[a].email, 0)
  BY DEF Door!Secure
<1>3. a \in Accounts /\ account[a].made /\ account[a].email \in Addresses
  BY <1>1, <1>2 DEF Door!Known, Door!TypeOK, Door!AccountRows
<1> DEFINE t == Fresh("ask", "secure", a, account[a].email, 0)
<1>4. t \in Door!Turns /\ turn' = [turn EXCEPT ![c] = t]
  BY <1>2, <1>3 DEF Door!Turns, Door!Stages, Door!Goals, Door!Begin, Fresh
<1>5. TurnFits(c, t)
  BY <1>2, <1>3 DEF TurnFits, Asking, Found, SentTo, Fresh
<1>6. QED  BY <1>1, <1>4, <1>5, TurnOnly DEF Door!TypeOK

LEMMA TypeCode_Fits ==
  ASSUME Door!Given, IInv, NEW c \in Chats, Door!TypeCode(c)
  PROVE  IInv'
<1>1. UNCHANGED <<account, start, tokens, recent, link, setup, asked, auth, entered, faults>> /\ Door!TypeOK
  BY DEF Door!TypeCode, IInv, Door!sessions
<1>2. recent' \subseteq Accounts /\ asked' \subseteq Chats /\ auth' \subseteq Chats /\ faults' \in Nat
  BY <1>1 DEF Door!TypeOK
<1>3. PICK typed \in Door!Typed(c) :
       \/ Door!InLink(c, {"code"}) /\ Door!Begin(c, "look", "link", link[c].user, None, typed)
       \/ \E a \in Door!Known(c) :
            \/ account[a].email = None /\ setup[a] # None /\ Door!Begin(c, "look", "setup", a, setup[a], typed)
            \/ account[a].email # None /\ Door!Begin(c, "look", "secure", a, None, typed)
  BY DEF Door!TypeCode
<1>4. typed \in Nat
  BY <1>1, <1>3 DEF Door!Typed, Door!TypeOK
<1>5. CASE Door!InLink(c, {"code"}) /\ Door!Begin(c, "look", "link", link[c].user, None, typed)
  <2> DEFINE t == Fresh("look", "link", link[c].user, None, typed)
  <2>1. link[c] \in [state : {"code"}, user : Accounts]
    BY <1>1, <1>5 DEF Door!InLink, Door!TypeOK, Door!Links
  <2>2. t \in Door!Turns /\ turn' = [turn EXCEPT ![c] = t]
    BY <1>4, <1>5, <2>1 DEF Door!Turns, Door!Stages, Door!Goals, Door!Begin, Fresh
  <2>3. account[link[c].user].made /\ account[link[c].user].email # None
    BY <1>5 DEF Door!InLink, IInv, SessionsFit
  <2>4. TurnFits(c, t)
    BY <2>3 DEF TurnFits, Asking, Found, Fresh
  <2> QED BY <1>1, <1>2, <2>2, <2>4, TurnOnly
<1>6. ASSUME NEW a \in Door!Known(c), account[a].email = None, setup[a] # None,
             Door!Begin(c, "look", "setup", a, setup[a], typed)
      PROVE  IInv'
  <2> DEFINE t == Fresh("look", "setup", a, setup[a], typed)
  <2>1. a \in Accounts /\ account[a].made /\ account[a].chat = c /\ setup[a] \in Addresses
    BY <1>1, <1>6 DEF Door!Known, Door!TypeOK
  <2>2. t \in Door!Turns /\ turn' = [turn EXCEPT ![c] = t]
    BY <1>4, <1>6, <2>1 DEF Door!Turns, Door!Stages, Door!Goals, Door!Begin, Fresh
  <2>3. AllTo(a, setup[a])
    BY <1>6, <2>1 DEF IInv, SessionsFit
  <2>4. TurnFits(c, t)
    BY <1>6, <2>1, <2>3 DEF TurnFits, Asking, Found, Fresh, SettingUp
  <2> QED BY <1>1, <1>2, <2>2, <2>4, TurnOnly
<1>7. ASSUME NEW a \in Door!Known(c), account[a].email # None, Door!Begin(c, "look", "secure", a, None, typed)
      PROVE  IInv'
  <2> DEFINE t == Fresh("look", "secure", a, None, typed)
  <2>1. a \in Accounts /\ account[a].made
    BY <1>7 DEF Door!Known
  <2>2. t \in Door!Turns /\ turn' = [turn EXCEPT ![c] = t]
    BY <1>4, <1>7, <2>1 DEF Door!Turns, Door!Stages, Door!Goals, Door!Begin, Fresh
  <2>3. TurnFits(c, t)
    BY <1>7, <2>1 DEF TurnFits, Asking, Found, Fresh
  <2> QED BY <1>1, <1>2, <2>2, <2>3, TurnOnly
<1>8. QED  BY <1>3, <1>5, <1>6, <1>7

-----------------------------------------------------------------------------
(* Mailing a code *)

\* The turn of c, when it is at a stage.
LEMMA TurnAt ==
  ASSUME IInv, NEW c \in Chats, turn[c] # None
  PROVE  turn[c] \in Door!Turns /\ turn[c].user \in Accounts /\ TurnFits(c, turn[c])
BY DEF IInv, Door!TypeOK, TurnsFit, Door!Turns

LEMMA Ask_Fits ==
  ASSUME Door!Given, IInv, NEW c \in Chats, Door!Ask(c)
  PROVE  IInv'
<1>1. UNCHANGED <<account, start, tokens, recent, link, setup, asked, auth, entered, faults>> /\ Door!TypeOK
  BY DEF Door!Ask, IInv, Door!sessions
<1> PICK s : s = turn[c]
  OBVIOUS
<1>2. s \in Door!Turns /\ TurnFits(c, s) /\ s.pc = "ask"
  BY TurnAt DEF Door!Ask, Door!At
<1> DEFINE t == [s EXCEPT !.pc = "void"]
<1>3. t \in Door!Turns /\ TurnFits(c, t)
  BY <1>2 DEF Door!Turns, Door!Stages, TurnFits, Asking, Found, SettingUp, SentTo
<1>4. turn' = [turn EXCEPT ![c] = None] \/ turn' = [turn EXCEPT ![c] = t]
  BY DEF Door!Ask, Door!Over, Door!Go
<1>5. CASE turn' = [turn EXCEPT ![c] = None]
  BY <1>1, <1>5, TurnOnly DEF Door!TypeOK
<1>6. CASE turn' = [turn EXCEPT ![c] = t]
  <2> HIDE DEF t
  <2> QED BY <1>1, <1>3, <1>6, TurnOnly DEF Door!TypeOK
<1>7. QED  BY <1>4, <1>5, <1>6

LEMMA Mail_Fits ==
  ASSUME Door!Given, IInv, NEW c \in Chats, Door!Mail(c)
  PROVE  IInv'
<1>1. UNCHANGED <<account, start, tokens, recent, link, setup, asked, auth, entered, faults>> /\ Door!TypeOK
  BY DEF Door!Mail, IInv, Door!sessions
<1> PICK s : s = turn[c]
  OBVIOUS
<1>2. s \in Door!Turns /\ TurnFits(c, s) /\ s.pc = "mail"
  BY TurnAt DEF Door!Mail, Door!At
<1> DEFINE t == [s EXCEPT !.pc = "note"]
<1>3. t \in Door!Turns /\ TurnFits(c, t)
  BY <1>2 DEF Door!Turns, Door!Stages, TurnFits, Asking, Found, SettingUp, SentTo
<1>4. turn' = [turn EXCEPT ![c] = t]
  BY DEF Door!Mail, Door!Go
<1> HIDE DEF t
<1>5. QED  BY <1>1, <1>3, <1>4, TurnOnly DEF Door!TypeOK

LEMMA MailFails_Fits ==
  ASSUME Door!Given, IInv, NEW c \in Chats, Door!MailFails(c)
  PROVE  IInv'
<1>1. UNCHANGED <<account, start, tokens, recent, setup, asked, auth, entered>> /\ Door!TypeOK
  BY DEF Door!MailFails, IInv
<1>2. faults' \in Nat /\ turn' = [turn EXCEPT ![c] = None] /\ link' \in {link, [link EXCEPT ![c] = None]}
  BY <1>1 DEF Door!MailFails, Door!Over, Door!TypeOK
<1>3. link' \in [Chats -> Door!Links \cup {None}] /\ NewLinkFits
  BY <1>1, <1>2 DEF Door!TypeOK, NewLinkFits
<1>4. NewSetUpFits(c)
  BY <1>1 DEF NewSetUpFits
<1>5. QED  BY <1>1, <1>2, <1>3, <1>4, SessionsOnly DEF Door!TypeOK

LEMMA Note_Fits ==
  ASSUME Door!Given, IInv, NEW c \in Chats, Door!Note(c)
  PROVE  IInv'
<1>1. UNCHANGED <<account, start, tokens, recent, auth, entered, faults>> /\ Door!TypeOK
  BY DEF Door!Note, IInv
<1> PICK t : t = turn[c]
  OBVIOUS
<1>2. t \in Door!Turns /\ t.user \in Accounts /\ TurnFits(c, t) /\ t.pc = "note"
  BY TurnAt DEF Door!Note, Door!At
<1>3. /\ link' = IF t.goal \in {"link", "signup"}
                 THEN [link EXCEPT ![c] = [state |-> "code", user |-> t.user]] ELSE link
      /\ setup' = IF t.goal = "setup" THEN [setup EXCEPT ![t.user] = t.to] ELSE setup
      /\ asked' = IF t.goal = "secure" THEN asked \cup {c} ELSE asked
      /\ turn' = [turn EXCEPT ![c] = None]
  BY DEF Door!Note, Door!Over
<1>4. [state |-> "code", user |-> t.user] \in Door!Links
  BY <1>2 DEF Door!Links
<1>5. link' \in [Chats -> Door!Links \cup {None}]
  BY <1>1, <1>3, <1>4 DEF Door!TypeOK
<1>6. NewLinkFits
  BY <1>1, <1>2, <1>3 DEF Door!TypeOK, NewLinkFits, TurnFits
<1>7. t.goal = "setup" => /\ account[t.user].made /\ account[t.user].chat = c
                          /\ t.to \in Addresses /\ AllTo(t.user, t.to)
  BY <1>2 DEF TurnFits, SettingUp
<1>8. setup' \in [Accounts -> Addresses \cup {None}] /\ NewSetUpFits(c)
  BY <1>1, <1>2, <1>3, <1>7 DEF Door!TypeOK, NewSetUpFits
<1>9. recent' \subseteq Accounts /\ asked' \subseteq Chats /\ auth' \subseteq Chats /\ faults' \in Nat
  BY <1>1, <1>3 DEF Door!TypeOK
<1>10. QED  BY <1>1, <1>3, <1>5, <1>6, <1>8, <1>9, SessionsOnly

-----------------------------------------------------------------------------
(* Steps that change nothing but turns, sessions and the clocks *)

LEMMA Look_Fits ==
  ASSUME Door!Given, IInv, NEW c \in Chats, Door!Look(c)
  PROVE  IInv'
<1>1. UNCHANGED <<account, start, tokens, recent, link, setup, asked, auth, entered, faults>> /\ Door!TypeOK
  BY DEF Door!Look, IInv, Door!sessions
<1> PICK s : s = turn[c]
  OBVIOUS
<1>2. s \in Door!Turns /\ s.user \in Accounts /\ TurnFits(c, s) /\ s.pc = "look"
  BY TurnAt DEF Door!Look, Door!At
<1>3. CASE turn' = [turn EXCEPT ![c] = None]
  BY <1>1, <1>3, TurnOnly DEF Door!TypeOK
<1>4. ASSUME NEW i \in Door!Newest(s.user), NEW stop \in {"burn", "count"},
             turn' = [turn EXCEPT ![c] = [s EXCEPT !.pc = stop, !.tok = i]]
      PROVE  IInv'
  <2> DEFINE t == [s EXCEPT !.pc = stop, !.tok = i]
  <2>1. i \in 1..Len(tokens) /\ tokens[i].user = s.user /\ ~tokens[i].used
    BY <1>4 DEF Door!Newest
  <2>2. t \in Door!Turns
    <3>1. i \in Nat
      BY <1>1, <2>1 DEF Door!TypeOK
    <3> QED BY <1>2, <3>1 DEF Door!Turns, Door!Stages
  <2>3. s.goal = "setup" => tokens[i].to = s.to
    BY <1>2, <2>1 DEF TurnFits, SettingUp, AllTo
  <2>4. s.goal # "setup" => tokens[i].to = account[s.user].email
    BY <1>2, <2>1 DEF TurnFits, IInv, TokensFit
  <2>5. TurnFits(c, t)
    BY <1>2, <2>1, <2>3, <2>4 DEF TurnFits, Asking, Found, SettingUp, SentTo
  <2> HIDE DEF t
  <2>6. turn' = [turn EXCEPT ![c] = t]
    BY <1>4 DEF t
  <2> QED BY <1>1, <2>2, <2>5, <2>6, TurnOnly DEF Door!TypeOK
<1>5. \/ turn' = [turn EXCEPT ![c] = None]
      \/ \E i \in Door!Newest(s.user), stop \in {"burn", "count"} :
           turn' = [turn EXCEPT ![c] = [s EXCEPT !.pc = stop, !.tok = i]]
  <2>1. CASE Door!Newest(s.user) = {}
    BY <2>1 DEF Door!Look, Door!Over
  <2>2. CASE \E i \in Door!Newest(s.user) :
          turn' = [turn EXCEPT ![c] =
            IF Door!Spent(i) THEN [s EXCEPT !.pc = "burn", !.tok = i]
            ELSE IF tokens[i].expired THEN None
            ELSE [s EXCEPT !.pc = "count", !.tok = i]]
    <3>1. PICK i \in Door!Newest(s.user) :
          turn' = [turn EXCEPT ![c] =
            IF Door!Spent(i) THEN [s EXCEPT !.pc = "burn", !.tok = i]
            ELSE IF tokens[i].expired THEN None
            ELSE [s EXCEPT !.pc = "count", !.tok = i]]
      BY <2>2
    <3>2. CASE Door!Spent(i)
      BY <3>1, <3>2
    <3>3. CASE ~Door!Spent(i) /\ tokens[i].expired
      BY <3>1, <3>3
    <3>4. CASE ~Door!Spent(i) /\ ~tokens[i].expired
      BY <3>1, <3>4
    <3> QED BY <3>2, <3>3, <3>4
  <2> QED BY <1>1, <2>1, <2>2 DEF Door!Look, Door!TypeOK
<1>6. QED  BY <1>3, <1>4, <1>5

LEMMA Settle_Fits ==
  ASSUME Door!Given, IInv, NEW c \in Chats, Door!Settle(c)
  PROVE  IInv'
<1>1. UNCHANGED <<account, start, tokens, recent, entered, faults>> /\ Door!TypeOK
  BY DEF Door!Settle, IInv
<1> PICK t : t = turn[c]
  OBVIOUS
<1>2. t \in Door!Turns /\ t.user \in Accounts
  BY TurnAt DEF Door!Settle, Door!At
<1>3. /\ auth' = auth \cup {c}
      /\ link' = IF t.goal = "link" THEN [link EXCEPT ![c] = None] ELSE link
      /\ setup' = IF t.goal = "setup" THEN [setup EXCEPT ![t.user] = None] ELSE setup
      /\ asked' = IF t.goal = "secure" THEN asked \ {c} ELSE asked
      /\ turn' = [turn EXCEPT ![c] = None]
  BY DEF Door!Settle, Door!Over
<1>4. link' \in [Chats -> Door!Links \cup {None}] /\ NewLinkFits
  BY <1>1, <1>3 DEF Door!TypeOK, NewLinkFits
<1>5. setup' \in [Accounts -> Addresses \cup {None}] /\ NewSetUpFits(c)
  BY <1>1, <1>2, <1>3 DEF Door!TypeOK, NewSetUpFits
<1>6. recent' \subseteq Accounts /\ asked' \subseteq Chats /\ auth' \subseteq Chats /\ faults' \in Nat
  BY <1>1, <1>3 DEF Door!TypeOK
<1>7. QED  BY <1>1, <1>3, <1>4, <1>5, <1>6, SessionsOnly

LEMMA Lapse_Fits ==
  ASSUME Door!Given, IInv, NEW c \in Chats, Door!Lapse(c)
  PROVE  IInv'
<1>1. UNCHANGED <<account, start, tokens, recent, turn, entered, faults>> /\ Door!TypeOK
  BY DEF Door!Lapse, IInv
<1>2. link' \in {link, [link EXCEPT ![c] = None]} /\ asked' \subseteq asked /\ auth' \subseteq auth
  BY DEF Door!Lapse, Door!SessionEnds
<1>3. setup' = setup \/ \E a \in Accounts : setup' = [setup EXCEPT ![a] = None]
  BY DEF Door!Lapse, Door!SessionEnds, Door!Known
<1>4. setup' \in [Accounts -> Addresses \cup {None}] /\ \A a \in Accounts : setup'[a] \in {setup[a], None}
  BY <1>1, <1>3 DEF Door!TypeOK
<1>5. link' \in [Chats -> Door!Links \cup {None}] /\ NewLinkFits
  BY <1>1, <1>2 DEF Door!TypeOK, NewLinkFits
<1>6. QED  BY <1>1, <1>2, <1>4, <1>5, SessionsOnly DEF Door!TypeOK

LEMMA Die_Fits ==
  ASSUME Door!Given, IInv, NEW c \in Chats, Door!Die(c)
  PROVE  IInv'
<1>1. UNCHANGED <<account, start, tokens, recent, link, setup, asked, auth, entered>> /\ Door!TypeOK
  BY DEF Door!Die, IInv, Door!sessions
<1>2. faults' \in Nat /\ turn' = [turn EXCEPT ![c] = None]
  BY <1>1 DEF Door!Die, Door!Over, Door!TypeOK
<1>3. QED  BY <1>1, <1>2, TurnOnly DEF Door!TypeOK

LEMMA Later_Fits ==
  ASSUME Door!Given, IInv, NEW a \in Accounts, Door!Later(a)
  PROVE  IInv'
<1>1. UNCHANGED <<account, start, tokens, link, setup, asked, auth, turn, entered, faults>> /\ Door!TypeOK
  BY DEF Door!Later, IInv, Door!sessions
<1>2. NewLinkFits /\ recent' \subseteq Accounts
  BY <1>1 DEF NewLinkFits, Door!Later, Door!TypeOK
<1>3. QED  BY <1>1, <1>2, SessionsOnly DEF Door!TypeOK

-----------------------------------------------------------------------------
(* Steps that change codes *)

\* Codes that are there are counted, used or expire.
CodesKept ==
  /\ tokens' \in Seq(Door!Tokens) /\ Len(tokens') = Len(tokens)
  /\ \A i \in 1..Len(tokens) :
       /\ tokens'[i].user = tokens[i].user /\ tokens'[i].to = tokens[i].to
       /\ tokens[i].used => tokens'[i].used

LEMMA CodesOnly ==
  ASSUME IInv, NEW c, CodesKept, UNCHANGED <<account, start, recent, link, setup, asked, auth, faults>>,
         entered' \in [Chats -> SUBSET (1..Len(tokens))], EnteredKept,
         turn' \in [Chats -> Door!Turns \cup {None}], \A d \in Chats \ {c} : turn'[d] = turn[d],
         c \in Chats /\ turn'[c] # None => TurnFits(c, turn[c])'
  PROVE  IInv'
<1>1. Door!TypeOK'
  BY DEF IInv, Door!TypeOK, CodesKept
<1>2. Len(tokens) \in Nat /\ (Len(tokens) + 1)..Len(tokens') = {}
  BY DEF IInv, Door!TypeOK, CodesKept
<1>3. AccountsKept /\ NewSetUpFits(c) /\ NewLinkFits
  BY DEF AccountsKept, NewSetUpFits, NewLinkFits
<1>4. NewAddressFits(c)
  BY DEF NewAddressFits
<1>5. TokensKept /\ NewTokensFit(c)
  BY <1>2 DEF TokensKept, CodesKept, NewTokensFit
<1>6. QED  BY <1>1, <1>3, <1>4, <1>5, StepFits

\* One code becomes x.
LEMMA OneCode ==
  ASSUME IInv, NEW i \in 1..Len(tokens), NEW x \in Door!Tokens, tokens' = [tokens EXCEPT ![i] = x],
         x.user = tokens[i].user, x.to = tokens[i].to, tokens[i].used => x.used
  PROVE  CodesKept /\ tokens'[i] = x /\ \A j \in 1..Len(tokens) : j # i => tokens'[j] = tokens[j]
<1>1. tokens \in Seq(Door!Tokens)
  BY DEF IInv, Door!TypeOK
<1>2. tokens' \in Seq(Door!Tokens) /\ Len(tokens') = Len(tokens)
  BY <1>1
<1>3. tokens'[i] = x /\ \A j \in 1..Len(tokens) : j # i => tokens'[j] = tokens[j]
  BY <1>1
<1>4. QED  BY <1>2, <1>3 DEF CodesKept

\* What a code is, piece by piece.
LEMMA CodeParts ==
  ASSUME IInv, NEW i \in 1..Len(tokens)
  PROVE  /\ tokens[i] \in Door!Tokens /\ tokens[i].attempts \in Nat /\ tokens[i].tried \in Nat
         /\ tokens[i].user \in Accounts /\ tokens[i].to \in Addresses
<1>1. tokens \in Seq(Door!Tokens)
  BY DEF IInv, Door!TypeOK
<1>2. tokens[i] \in Door!Tokens
  BY <1>1, Elements
<1>3. QED  BY <1>2 DEF Door!Tokens

\* The turn of c that has a code in hand.
LEMMA TurnWithCode ==
  ASSUME IInv, NEW c \in Chats, turn[c] # None, turn[c].pc \in Found
  PROVE  /\ turn[c] \in Door!Turns /\ TurnFits(c, turn[c])
         /\ turn[c].tok \in 1..Len(tokens) /\ tokens[turn[c].tok].user = turn[c].user
         /\ tokens[turn[c].tok].to = SentTo(turn[c])
BY TurnAt DEF TurnFits

LEMMA Void_Fits ==
  ASSUME Door!Given, IInv, NEW c \in Chats, Door!Void(c)
  PROVE  IInv' /\ CodesKept
<1>1. UNCHANGED <<account, start, recent, link, setup, asked, auth, entered, faults>> /\ Door!TypeOK
  BY DEF Door!Void, IInv, Door!sessions
<1> PICK s : s = turn[c]
  OBVIOUS
<1>2. s \in Door!Turns /\ TurnFits(c, s) /\ s.pc = "void"
  BY TurnAt DEF Door!Void, Door!At
<1> PICK n : n = Len(tokens)
  OBVIOUS
<1>3. n \in Nat /\ DOMAIN tokens = 1..n /\ \A i \in 1..n : tokens[i] \in Door!Tokens
  BY <1>1, Elements DEF Door!TypeOK
<1>4. tokens' = [i \in 1..n |-> IF tokens[i].user = s.user THEN [tokens[i] EXCEPT !.used = TRUE] ELSE tokens[i]]
  BY <1>3 DEF Door!Void
<1>5. \A i \in 1..n : tokens'[i] \in Door!Tokens
  BY <1>3, <1>4 DEF Door!Tokens
<1>6. tokens' \in Seq(Door!Tokens) /\ Len(tokens') = n
  BY <1>3, <1>4, <1>5
<1>7. \A i \in 1..n : /\ tokens'[i].user = tokens[i].user /\ tokens'[i].to = tokens[i].to
                      /\ tokens[i].used => tokens'[i].used
                      /\ tokens[i].user = s.user => tokens'[i].used
  BY <1>3, <1>4 DEF Door!Tokens
<1>8. CodesKept
  BY <1>6, <1>7 DEF CodesKept
<1>9. NoneLeft(s.user)'
  BY <1>6, <1>7 DEF NoneLeft
<1> DEFINE t == [s EXCEPT !.pc = "make"]
<1>10. t \in Door!Turns /\ turn' = [turn EXCEPT ![c] = t]
  BY <1>2 DEF Door!Turns, Door!Stages, Door!Void, Door!Go
<1>11. turn' \in [Chats -> Door!Turns \cup {None}] /\ turn'[c] = t /\ \A d \in Chats \ {c} : turn'[d] = turn[d]
  BY <1>1, <1>10, TurnGoesOn
<1>12. TurnFits(c, t)'
  BY <1>1, <1>2, <1>9 DEF TurnFits, Asking, Found, SettingUp, SentTo
<1>13. EnteredKept /\ entered' \in [Chats -> SUBSET (1..Len(tokens))]
  BY <1>1 DEF EnteredKept, Door!TypeOK
<1>14. TurnFits(c, turn[c])'
  BY <1>11, <1>12
<1>15. QED  BY <1>1, <1>8, <1>11, <1>13, <1>14, CodesOnly

LEMMA Burn_Fits ==
  ASSUME Door!Given, IInv, NEW c \in Chats, Door!Burn(c)
  PROVE  IInv' /\ CodesKept
<1>1. UNCHANGED <<account, start, recent, link, setup, asked, auth, entered, faults>> /\ Door!TypeOK
  BY DEF Door!Burn, IInv, Door!sessions
<1> PICK i : i = turn[c].tok
  OBVIOUS
<1>2. i \in 1..Len(tokens)
  BY TurnWithCode DEF Door!Burn, Door!At, Found
<1> DEFINE x == [tokens[i] EXCEPT !.used = TRUE]
<1>3. x \in Door!Tokens /\ x.user = tokens[i].user /\ x.to = tokens[i].to /\ x.used
  BY <1>2, CodeParts DEF Door!Tokens
<1>4. tokens' = [tokens EXCEPT ![i] = x]
  BY DEF Door!Burn
<1> HIDE DEF x
<1>5. CodesKept
  BY <1>2, <1>3, <1>4, OneCode
<1>6. turn' \in [Chats -> Door!Turns \cup {None}] /\ turn'[c] = None /\ \A d \in Chats \ {c} : turn'[d] = turn[d]
  BY <1>1 DEF Door!Burn, Door!Over, Door!TypeOK
<1>7. EnteredKept /\ entered' \in [Chats -> SUBSET (1..Len(tokens))]
  BY <1>1 DEF EnteredKept, Door!TypeOK
<1>8. QED  BY <1>1, <1>5, <1>6, <1>7, CodesOnly

\* A turn that has a code in hand fits when it goes on to another stage with it, also when the code is counted.
LEMMA NextStageFits ==
  ASSUME IInv, NEW c \in Chats, NEW s, s = turn[c], s # None, s.pc \in {"burn", "count", "compare", "use"},
         UNCHANGED <<account, setup>>, CodesKept, NEW stop \in {"compare", "use", "act", "settle"},
         s.goal = "setup" => stop # "settle",
         stop \in {"act", "settle"} => s.tok \in entered'[c]
  PROVE  TurnFits(c, [s EXCEPT !.pc = stop])' /\ [s EXCEPT !.pc = stop] \in Door!Turns
<1>1. s \in Door!Turns /\ TurnFits(c, s)
  BY TurnWithCode DEF Found
<1>2. Len(tokens) \in Nat /\ Len(tokens') = Len(tokens)
  BY DEF IInv, Door!TypeOK, CodesKept
<1>3. AllTo(s.user, s.to) => AllTo(s.user, s.to)'
  BY <1>2 DEF AllTo, CodesKept
<1> DEFINE t == [s EXCEPT !.pc = stop]
<1>4. t \in Door!Turns /\ t.pc = stop /\ t.user = s.user /\ t.to = s.to /\ t.goal = s.goal /\ t.tok = s.tok
  BY <1>1 DEF Door!Turns, Door!Stages
<1> HIDE DEF t
<1>5. s.goal = "setup" => SettingUp(c, t)'
  BY <1>1, <1>3, <1>4 DEF TurnFits, SettingUp, Asking
<1>6. TurnFits(c, t)'
  BY <1>1, <1>2, <1>4, <1>5 DEF TurnFits, Asking, Found, SentTo, CodesKept
<1>7. QED  BY <1>4, <1>6 DEF t

LEMMA Count_Fits ==
  ASSUME Door!Given, IInv, NEW c \in Chats, Door!Count(c)
  PROVE  IInv' /\ CodesKept
<1>1. UNCHANGED <<account, start, recent, link, setup, asked, auth, entered, faults>> /\ Door!TypeOK
  BY DEF Door!Count, IInv, Door!sessions
<1> PICK s : s = turn[c]
  OBVIOUS
<1> PICK i : i = s.tok
  OBVIOUS
<1>2. i \in 1..Len(tokens) /\ s # None /\ s.pc = "count"
  BY TurnWithCode DEF Door!Count, Door!At, Found
<1> DEFINE x == [tokens[i] EXCEPT !.attempts = @ + 1]
<1>3. x \in Door!Tokens /\ x.user = tokens[i].user /\ x.to = tokens[i].to /\ x.used = tokens[i].used
  BY <1>2, CodeParts DEF Door!Tokens
<1>4. tokens' = [tokens EXCEPT ![i] = x]
  BY DEF Door!Count
<1> HIDE DEF x
<1>5. CodesKept
  BY <1>2, <1>3, <1>4, OneCode
<1> DEFINE t == [s EXCEPT !.pc = "compare"]
<1>6. TurnFits(c, t)' /\ t \in Door!Turns /\ turn' = [turn EXCEPT ![c] = t]
  BY <1>1, <1>2, <1>5, NextStageFits DEF Door!Count, Door!Go
<1> HIDE DEF t
<1>7. turn' \in [Chats -> Door!Turns \cup {None}] /\ turn'[c] = t /\ \A d \in Chats \ {c} : turn'[d] = turn[d]
  BY <1>1, <1>6, TurnGoesOn
<1>8. EnteredKept /\ entered' \in [Chats -> SUBSET (1..Len(tokens))]
  BY <1>1 DEF EnteredKept, Door!TypeOK
<1>9. TurnFits(c, turn[c])'
  BY <1>6, <1>7
<1>10. QED  BY <1>1, <1>5, <1>7, <1>8, <1>9, CodesOnly

LEMMA Compare_Fits ==
  ASSUME Door!Given, IInv, NEW c \in Chats, Door!Compare(c)
  PROVE  IInv' /\ CodesKept
<1>1. UNCHANGED <<account, start, recent, link, setup, asked, auth, entered, faults>> /\ Door!TypeOK
  BY DEF Door!Compare, IInv, Door!sessions
<1> PICK s : s = turn[c]
  OBVIOUS
<1> PICK i : i = s.tok
  OBVIOUS
<1>2. i \in 1..Len(tokens) /\ s # None /\ s.pc = "compare"
  BY TurnWithCode DEF Door!Compare, Door!At, Found
<1> DEFINE x == [tokens[i] EXCEPT !.tried = @ + 1]
<1>3. x \in Door!Tokens /\ x.user = tokens[i].user /\ x.to = tokens[i].to /\ x.used = tokens[i].used
  BY <1>2, CodeParts DEF Door!Tokens
<1>4. tokens' = [tokens EXCEPT ![i] = x]
  BY DEF Door!Compare
<1> HIDE DEF x
<1>5. CodesKept
  BY <1>2, <1>3, <1>4, OneCode
<1>6. EnteredKept /\ entered' \in [Chats -> SUBSET (1..Len(tokens))]
  BY <1>1 DEF EnteredKept, Door!TypeOK
<1> DEFINE t == [s EXCEPT !.pc = "use"]
<1>7. TurnFits(c, t)' /\ t \in Door!Turns
  BY <1>1, <1>2, <1>5, NextStageFits
<1>8. turn' = [turn EXCEPT ![c] = t] \/ turn' = [turn EXCEPT ![c] = None]
  BY DEF Door!Compare, Door!Go, Door!Over
<1> HIDE DEF t
<1>9. CASE turn' = [turn EXCEPT ![c] = t]
  <2>1. turn' \in [Chats -> Door!Turns \cup {None}] /\ turn'[c] = t /\ \A d \in Chats \ {c} : turn'[d] = turn[d]
    BY <1>1, <1>7, <1>9, TurnGoesOn
  <2>2. TurnFits(c, turn[c])'
    BY <1>7, <2>1
  <2> QED BY <1>1, <1>5, <1>6, <2>1, <2>2, CodesOnly
<1>10. CASE turn' = [turn EXCEPT ![c] = None]
  <2>1. turn' \in [Chats -> Door!Turns \cup {None}] /\ turn'[c] = None /\ \A d \in Chats \ {c} : turn'[d] = turn[d]
    BY <1>1, <1>10 DEF Door!TypeOK
  <2> QED BY <1>1, <1>5, <1>6, <2>1, CodesOnly
<1>11. QED  BY <1>8, <1>9, <1>10

LEMMA Use_Fits ==
  ASSUME Door!Given, IInv, NEW c \in Chats, Door!Use(c)
  PROVE  IInv' /\ CodesKept /\ EnteredKept
<1>1. UNCHANGED <<account, start, recent, link, setup, asked, auth, faults>> /\ Door!TypeOK
  BY DEF Door!Use, IInv, Door!sessions
<1> PICK s : s = turn[c]
  OBVIOUS
<1> PICK i : i = s.tok
  OBVIOUS
<1>2. i \in 1..Len(tokens) /\ s # None /\ s.pc = "use" /\ s \in Door!Turns /\ TurnFits(c, s)
  BY TurnWithCode DEF Door!Use, Door!At, Found
<1> DEFINE x == [tokens[i] EXCEPT !.used = TRUE]
<1>3. x \in Door!Tokens /\ x.user = tokens[i].user /\ x.to = tokens[i].to /\ x.used
  BY <1>2, CodeParts DEF Door!Tokens
<1>4. tokens' = [tokens EXCEPT ![i] = x]
  BY DEF Door!Use
<1> HIDE DEF x
<1>5. CodesKept
  BY <1>2, <1>3, <1>4, OneCode
<1>6. entered' = [entered EXCEPT ![c] = @ \cup {i}]
  BY DEF Door!Use
<1>7. EnteredKept /\ entered' \in [Chats -> SUBSET (1..Len(tokens))] /\ i \in entered'[c]
  BY <1>1, <1>2, <1>6 DEF EnteredKept, Door!TypeOK
<1> PICK stop : stop = IF s.goal = "secure" THEN "settle" ELSE "act"
  OBVIOUS
<1>8. stop \in {"act", "settle"} /\ (s.goal = "setup" => stop # "settle")
  OBVIOUS
<1> DEFINE t == [s EXCEPT !.pc = stop]
<1>9. TurnFits(c, t)' /\ t \in Door!Turns
  BY <1>1, <1>2, <1>5, <1>7, <1>8, NextStageFits
<1>10. turn' = [turn EXCEPT ![c] = t]
  BY DEF Door!Use, Door!Go
<1> HIDE DEF t
<1>11. turn' \in [Chats -> Door!Turns \cup {None}] /\ turn'[c] = t /\ \A d \in Chats \ {c} : turn'[d] = turn[d]
  BY <1>1, <1>9, <1>10, TurnGoesOn
<1>12. TurnFits(c, turn[c])'
  BY <1>9, <1>11
<1>13. QED  BY <1>1, <1>5, <1>7, <1>11, <1>12, CodesOnly

LEMMA Expire_Fits ==
  ASSUME Door!Given, IInv, NEW i \in 1..Len(tokens), Door!Expire(i)
  PROVE  IInv' /\ CodesKept
<1>1. UNCHANGED <<account, start, recent, link, setup, asked, auth, turn, entered, faults>> /\ Door!TypeOK
  BY DEF Door!Expire, IInv, Door!sessions
<1> DEFINE x == [tokens[i] EXCEPT !.expired = TRUE]
<1>2. x \in Door!Tokens /\ x.user = tokens[i].user /\ x.to = tokens[i].to /\ x.used = tokens[i].used
  BY CodeParts DEF Door!Tokens
<1>3. tokens' = [tokens EXCEPT ![i] = x]
  BY DEF Door!Expire
<1> HIDE DEF x
<1>4. CodesKept
  BY <1>2, <1>3, OneCode
<1>5. EnteredKept /\ entered' \in [Chats -> SUBSET (1..Len(tokens))] /\ turn' \in [Chats -> Door!Turns \cup {None}]
  BY <1>1 DEF EnteredKept, Door!TypeOK
<1>6. QED  BY <1>1, <1>4, <1>5, CodesOnly DEF Door!Given

LEMMA Make_Fits ==
  ASSUME Door!Given, IInv, NEW c \in Chats, Door!Make(c)
  PROVE  /\ IInv'
         /\ Len(tokens') = Len(tokens) + 1 /\ \A i \in 1..Len(tokens) : tokens'[i] = tokens[i]
         /\ tokens'[Len(tokens) + 1].attempts = 0 /\ tokens'[Len(tokens) + 1].tried = 0
<1>1. UNCHANGED <<account, start, link, setup, asked, auth, entered, faults>> /\ Door!TypeOK
  BY DEF Door!Make, IInv, Door!sessions
<1> PICK s : s = turn[c]
  OBVIOUS
<1>2. s \in Door!Turns /\ s.user \in Accounts /\ TurnFits(c, s) /\ s.pc = "make"
  BY TurnAt DEF Door!Make, Door!At
<1> PICK n : n = Len(tokens)
  OBVIOUS
<1> PICK x : x = [user |-> s.user, to |-> s.to, used |-> FALSE, expired |-> FALSE, attempts |-> 0, tried |-> 0]
  OBVIOUS
<1>3. s.to \in Addresses
  BY <1>1, <1>2 DEF TurnFits, SentTo, SettingUp, Asking, Door!TypeOK, Door!AccountRows
<1>4. x \in Door!Tokens
  BY <1>2, <1>3 DEF Door!Tokens
<1>5. tokens \in Seq(Door!Tokens) /\ tokens' = Append(tokens, x) /\ recent' = recent \cup {s.user}
  BY <1>1 DEF Door!Make, Door!TypeOK
<1>6. /\ n \in Nat /\ tokens' \in Seq(Door!Tokens) /\ Len(tokens') = n + 1
      /\ \A i \in 1..n : tokens'[i] = tokens[i]
      /\ tokens'[n + 1] = x
  BY <1>4, <1>5
<1>7. AccountsKept /\ EnteredKept /\ NewSetUpFits(c) /\ NewLinkFits
  BY <1>1 DEF AccountsKept, EnteredKept, NewSetUpFits, NewLinkFits
<1>8. NewAddressFits(c)
  BY <1>1 DEF NewAddressFits
<1>9. TokensKept
  BY <1>6 DEF TokensKept
<1>10. account[s.user].made /\ (account[s.user].email # None => s.to = account[s.user].email)
       /\ (account[s.user].email = None => account[s.user].chat = c /\ setup[s.user] = None)
  BY <1>2 DEF TurnFits, SettingUp, SentTo, Asking
<1>11. NewTokensFit(c)
  <2>1. (n + 1)..Len(tokens') = {n + 1}
    BY <1>6
  <2> QED BY <1>1, <1>6, <1>10, <2>1 DEF NewTokensFit
<1> DEFINE t == [s EXCEPT !.pc = "mail"]
<1>12. t \in Door!Turns /\ turn' = [turn EXCEPT ![c] = t]
  BY <1>2 DEF Door!Turns, Door!Stages, Door!Make, Door!Go
<1>13. turn' \in [Chats -> Door!Turns \cup {None}] /\ turn'[c] = t /\ \A d \in Chats \ {c} : turn'[d] = turn[d]
  BY <1>1, <1>12, TurnGoesOn
<1>14. s.goal = "setup" => AllTo(s.user, s.to)'
  <2> SUFFICES ASSUME s.goal = "setup" PROVE AllTo(s.user, s.to)'
    OBVIOUS
  <2>1. NoneLeft(s.user)
    BY <1>2 DEF TurnFits, SettingUp
  <2>2. \A i \in 1..(n + 1) : i \in 1..n \/ i = n + 1
    BY <1>6
  <2> QED BY <1>6, <2>1, <2>2 DEF AllTo, NoneLeft
<1>15. TurnFits(c, t)'
  BY <1>1, <1>2, <1>14 DEF TurnFits, Asking, Found, SettingUp, SentTo
<1>16. TurnFits(c, turn[c])'
  BY <1>13, <1>15
<1>17. Door!TypeOK'
  <2>1. entered' \in [Chats -> SUBSET (1..Len(tokens'))]
    BY <1>1, <1>6 DEF Door!TypeOK
  <2> QED BY <1>1, <1>2, <1>5, <1>6, <1>13, <2>1 DEF Door!TypeOK
<1>18. IInv'
  BY <1>7, <1>8, <1>9, <1>11, <1>13, <1>16, <1>17, StepFits
<1>19. QED  BY <1>6, <1>18

-----------------------------------------------------------------------------
(* Steps that change accounts *)

\* A step that changes an account, and no code.
LEMMA AccountOnly ==
  ASSUME IInv, NEW c \in Chats, UNCHANGED <<start, tokens, recent, setup, asked, auth, entered, faults>>,
         account' \in [Accounts -> Door!AccountRows], AccountsKept, NewAddressFits(c),
         link' \in [Chats -> Door!Links \cup {None}], NewLinkFits,
         turn' \in [Chats -> Door!Turns \cup {None}], \A d \in Chats \ {c} : turn'[d] = turn[d],
         turn'[c] # None => TurnFits(c, turn[c])'
  PROVE  IInv'
<1>1. Door!TypeOK'
  BY DEF IInv, Door!TypeOK
<1>2. EnteredKept /\ NewSetUpFits(c)
  BY DEF EnteredKept, NewSetUpFits
<1>3. Len(tokens) \in Nat /\ (Len(tokens) + 1)..Len(tokens') = {}
  BY DEF IInv, Door!TypeOK
<1>4. TokensKept /\ NewTokensFit(c)
  BY <1>3 DEF TokensKept, NewTokensFit
<1>5. QED  BY <1>1, <1>2, <1>4, StepFits

LEMMA Register_Fits ==
  ASSUME Door!Given, IInv, NEW c \in Chats, Door!Register(c)
  PROVE  IInv' /\ \E a \in Accounts, row \in Door!AccountRows : row.chat = None
         /\ account' = [account EXCEPT ![a] = row]
<1>1. UNCHANGED <<start, tokens, recent, link, setup, asked, auth, entered, faults>> /\ Door!TypeOK
  BY DEF Door!Register, IInv, Door!sessions
<1> PICK e : e = link[c].email
  OBVIOUS
<1>2. link[c] \in [state : {"name", "role", "confirm"}, email : Addresses]
  BY <1>1 DEF Door!Register, Door!InLink, Door!TypeOK, Door!Links
<1>3. e \in Addresses /\ e # None
  BY <1>2 DEF Door!Given
<1>4. PICK a \in Accounts : /\ ~account[a].made
                            /\ account' = [account EXCEPT ![a] = [made |-> TRUE, email |-> e, chat |-> None]]
                            /\ Door!Begin(c, "ask", "signup", a, e, 0)
  BY DEF Door!Register
<1> PICK row : row = [made |-> TRUE, email |-> e, chat |-> None]
  OBVIOUS
<1>5. row \in Door!AccountRows /\ row.chat = None
  BY <1>3 DEF Door!AccountRows
<1>6. account' \in [Accounts -> Door!AccountRows] /\ account'[a] = row
         /\ \A b \in Accounts \ {a} : account'[b] = account[b]
  BY <1>1, <1>4, <1>5 DEF Door!TypeOK
<1>7. AccountsKept /\ NewAddressFits(c)
  <2>1. AccountsKept
    BY <1>4, <1>6 DEF AccountsKept
  <2>2. NewAddressFits(c)
    BY <1>4, <1>6 DEF NewAddressFits
  <2> QED BY <2>1, <2>2
<1> DEFINE t == Fresh("ask", "signup", a, e, 0)
<1>8. t \in Door!Turns /\ turn' = [turn EXCEPT ![c] = t]
  BY <1>3, <1>4 DEF Door!Turns, Door!Stages, Door!Goals, Door!Begin, Fresh
<1>9. turn' \in [Chats -> Door!Turns \cup {None}] /\ turn'[c] = t /\ \A d \in Chats \ {c} : turn'[d] = turn[d]
  BY <1>1, <1>8, TurnGoesOn
<1>10. TurnFits(c, t)'
  BY <1>3, <1>6 DEF TurnFits, Asking, Found, SentTo, Fresh
<1>11. TurnFits(c, turn[c])'
  BY <1>9, <1>10
<1>12. NewLinkFits /\ link' \in [Chats -> Door!Links \cup {None}]
  BY <1>1 DEF NewLinkFits, Door!TypeOK
<1>13. IInv'
  BY <1>1, <1>6, <1>7, <1>9, <1>11, <1>12, AccountOnly
<1>14. QED  BY <1>4, <1>5, <1>13

\* Saving the chat, or the address, of the account of a turn whose code was right.
LEMMA SavedFits ==
  ASSUME IInv, NEW c \in Chats, NEW s, s = turn[c], s # None, s.pc = "act", NEW row \in Door!AccountRows, row.made,
         account' = [account EXCEPT ![s.user] = row], turn' = [turn EXCEPT ![c] = [s EXCEPT !.pc = "settle"]],
         UNCHANGED <<start, tokens, recent, link, setup, asked, auth, entered, faults>>,
         row.email = IF s.goal = "setup" THEN s.to ELSE account[s.user].email
  PROVE  IInv'
<1>1. Door!TypeOK /\ s \in Door!Turns /\ s.user \in Accounts /\ TurnFits(c, s)
  BY TurnAt DEF IInv
<1> PICK a : a = s.user
  OBVIOUS
<1>2. account' \in [Accounts -> Door!AccountRows] /\ account'[a] = row
         /\ \A b \in Accounts \ {a} : account'[b] = account[b]
  BY <1>1 DEF Door!TypeOK
<1>3. s.goal = "setup" => /\ account[a].email = None /\ account[a].chat = c /\ s.to \in Addresses
                          /\ AllTo(a, s.to)
  BY <1>1 DEF TurnFits, SettingUp
<1>4. s.goal # "setup" => account[a].email # None /\ row.email = account[a].email
  BY <1>1 DEF TurnFits
<1>5. AccountsKept
  BY <1>2, <1>3, <1>4 DEF AccountsKept
<1>6. NewAddressFits(c)
  BY <1>2, <1>3, <1>4 DEF NewAddressFits
<1> DEFINE t == [s EXCEPT !.pc = "settle"]
<1>7. t \in Door!Turns /\ t.goal = s.goal /\ t.user = s.user /\ t.to = s.to /\ t.tok = s.tok /\ t.pc = "settle"
  BY <1>1 DEF Door!Turns, Door!Stages
<1> HIDE DEF t
<1>8. turn' \in [Chats -> Door!Turns \cup {None}] /\ turn'[c] = t /\ \A d \in Chats \ {c} : turn'[d] = turn[d]
  BY <1>1, <1>7, TurnGoesOn DEF t
<1>9. TurnFits(c, t)'
  BY <1>1, <1>2, <1>3, <1>4, <1>7 DEF TurnFits, Asking, Found, SentTo, SettingUp
<1>10. TurnFits(c, turn[c])'
  BY <1>8, <1>9
<1>11. NewLinkFits /\ link' \in [Chats -> Door!Links \cup {None}]
  BY <1>1 DEF NewLinkFits, Door!TypeOK
<1>12. QED  BY <1>2, <1>5, <1>6, <1>8, <1>10, <1>11, AccountOnly

LEMMA Bind_Fits ==
  ASSUME Door!Given, IInv, NEW c \in Chats, Door!Bind(c)
  PROVE  /\ IInv'
         /\ \/ account' = account
            \/ /\ TurnFits(c, turn[c]) /\ turn[c].pc = "act" /\ turn[c].goal = "link" /\ turn[c].user \in Accounts
               /\ account' = [account EXCEPT ![turn[c].user] = [@ EXCEPT !.chat = c]]
<1>1. UNCHANGED <<start, tokens, recent, setup, asked, auth, entered, faults>> /\ Door!TypeOK
  BY DEF Door!Bind, IInv
<1> PICK s : s = turn[c]
  OBVIOUS
<1>2. s \in Door!Turns /\ s.user \in Accounts /\ TurnFits(c, s) /\ s.pc = "act" /\ s.goal = "link" /\ s # None
  BY TurnAt DEF Door!Bind, Door!At
<1>3. account[s.user] \in Door!AccountRows /\ account[s.user].made
  BY <1>1, <1>2 DEF Door!TypeOK, TurnFits
<1>4. CASE Door!MayMove(s.user, c) /\ Door!Known(c) = {}
  <2> PICK row : row = [account[s.user] EXCEPT !.chat = c]
    OBVIOUS
  <2>1. row \in Door!AccountRows /\ row.made /\ row.email = account[s.user].email
    BY <1>3 DEF Door!AccountRows
  <2>2. account' = [account EXCEPT ![s.user] = row] /\ UNCHANGED link
        /\ turn' = [turn EXCEPT ![c] = [s EXCEPT !.pc = "settle"]]
    BY <1>4 DEF Door!Bind, Door!Go
  <2>3. IInv'
    BY <1>1, <1>2, <2>1, <2>2, SavedFits
  <2> QED BY <1>2, <2>2, <2>3
<1>5. CASE ~(Door!MayMove(s.user, c) /\ Door!Known(c) = {})
  <2>1. account' = account /\ turn' = [turn EXCEPT ![c] = None] /\ link' = [link EXCEPT ![c] = None]
    BY <1>5 DEF Door!Bind, Door!Over
  <2>2. link' \in [Chats -> Door!Links \cup {None}] /\ NewLinkFits /\ NewSetUpFits(c)
    BY <1>1, <2>1 DEF Door!TypeOK, NewLinkFits, NewSetUpFits
  <2>3. IInv'
    BY <1>1, <2>1, <2>2, SessionsOnly DEF Door!TypeOK
  <2> QED BY <2>1, <2>3
<1>6. QED  BY <1>4, <1>5

LEMMA SaveAddress_Fits ==
  ASSUME Door!Given, IInv, NEW c \in Chats, Door!SaveAddress(c)
  PROVE  /\ IInv'
         /\ TurnFits(c, turn[c]) /\ turn[c].pc = "act" /\ turn[c].goal = "setup" /\ turn[c].user \in Accounts
         /\ account' = [account EXCEPT ![turn[c].user] = [@ EXCEPT !.email = turn[c].to]]
<1>1. UNCHANGED <<start, tokens, recent, link, setup, asked, auth, entered, faults>> /\ Door!TypeOK
  BY DEF Door!SaveAddress, IInv, Door!sessions
<1> PICK s : s = turn[c]
  OBVIOUS
<1>2. s \in Door!Turns /\ s.user \in Accounts /\ TurnFits(c, s) /\ s.pc = "act" /\ s.goal = "setup" /\ s # None
  BY TurnAt DEF Door!SaveAddress, Door!At
<1>3. /\ account[s.user] \in Door!AccountRows /\ account[s.user].made
      /\ account[s.user].email = None /\ s.to \in Addresses
  BY <1>1, <1>2 DEF Door!TypeOK, TurnFits, SettingUp
<1> PICK row : row = [account[s.user] EXCEPT !.email = s.to]
  OBVIOUS
<1>4. row \in Door!AccountRows /\ row.made /\ row.email = s.to
  BY <1>3 DEF Door!AccountRows
<1>5. account' = [account EXCEPT ![s.user] = row]
  BY <1>3 DEF Door!SaveAddress
<1>6. turn' = [turn EXCEPT ![c] = [s EXCEPT !.pc = "settle"]]
  BY DEF Door!SaveAddress, Door!Go
<1>7. IInv'
  BY <1>1, <1>2, <1>4, <1>5, <1>6, SavedFits
<1>8. QED  BY <1>2, <1>5, <1>7

-----------------------------------------------------------------------------
(* Every step *)

LEMMA Init_Fits ==
  ASSUME Door!Given, Door!Init
  PROVE  IInv
<1>1. Len(tokens) = 0 /\ 1..Len(tokens) = {}
  BY DEF Door!Init
<1>2. Door!TypeOK
  BY <1>1 DEF Door!Init, Door!TypeOK, Door!Given
<1>3. TurnsFit /\ TokensFit /\ SessionsFit
  BY <1>1 DEF Door!Init, TurnsFit, TokensFit, SessionsFit, AllTo
<1>4. QED  BY <1>2, <1>3 DEF IInv

LEMMA Stutter_Fits ==
  ASSUME IInv, UNCHANGED Door!vars
  PROVE  IInv'
BY DEF Door!vars, IInv, Door!TypeOK, TurnsFit, TurnFits, SettingUp, SentTo, AllTo, NoneLeft, TokensFit, SessionsFit

LEMMA Next_Fits ==
  ASSUME Door!Given, IInv, [Door!Next]_(Door!vars)
  PROVE  IInv'
<1>1. ASSUME NEW c \in Chats, Door!Message(c) PROVE IInv'
  BY <1>1, GiveAddress_Fits, SetUpAddress_Fits, Fill_Fits, Register_Fits, Abandon_Fits, SetUpRetry_Fits, Secure_Fits,
     TypeCode_Fits DEF Door!Message
<1>2. ASSUME NEW c \in Chats, Door!Send(c) PROVE IInv'
  BY <1>2, Ask_Fits, Void_Fits, Make_Fits, Mail_Fits, MailFails_Fits, Note_Fits DEF Door!Send
<1>3. ASSUME NEW c \in Chats, Door!Verify(c) PROVE IInv'
  BY <1>3, Look_Fits, Burn_Fits, Count_Fits, Compare_Fits, Use_Fits DEF Door!Verify
<1>4. ASSUME NEW c \in Chats, Door!Enter(c) PROVE IInv'
  BY <1>4, Bind_Fits, SaveAddress_Fits, Settle_Fits DEF Door!Enter
<1>5. ASSUME NEW c \in Chats, Door!Lapse(c) \/ Door!Die(c) PROVE IInv'
  BY <1>5, Lapse_Fits, Die_Fits
<1>6. ASSUME NEW a \in Accounts, Door!Later(a) PROVE IInv'
  BY <1>6, Later_Fits
<1>7. ASSUME NEW i \in 1..Len(tokens), Door!Expire(i) PROVE IInv'
  BY <1>7, Expire_Fits
<1>8. CASE UNCHANGED Door!vars
  BY <1>8, Stutter_Fits
<1>9. QED  BY <1>1, <1>2, <1>3, <1>4, <1>5, <1>6, <1>7, <1>8 DEF Door!Next

\* Accounts, codes, sessions and turns are of their types, and what a turn counts on between two of its statements
\* holds, whatever the turns of other chats did in between.
THEOREM Typing == Door!Spec => [](Door!TypeOK /\ IInv)
<1> USE DoorGiven
<1>1. Door!Init => IInv
  BY Init_Fits
<1>2. IInv /\ [Door!Next]_(Door!vars) => IInv'
  BY Next_Fits
<1>3. IInv => Door!TypeOK /\ IInv
  BY DEF IInv
<1>4. QED  BY <1>1, <1>2, <1>3, PTL DEF Door!Spec

-----------------------------------------------------------------------------
(* Known by a code *)

LEMMA KnownStays ==
  ASSUME IInv, Door!KnownByCode, UNCHANGED <<account, start>>, EnteredKept,
         \A i \in 1..Len(tokens) : tokens'[i].user = tokens[i].user /\ tokens'[i].to = tokens[i].to
  PROVE  Door!KnownByCode'
<1> SUFFICES ASSUME NEW a \in Accounts, account[a] # start[a], account[a].chat # None, account[a].email # None
             PROVE  \E i \in entered'[account[a].chat] : tokens'[i].user = a /\ tokens'[i].to = account[a].email
  BY DEF Door!KnownByCode
<1>1. account[a].chat \in Chats /\ entered[account[a].chat] \subseteq 1..Len(tokens)
  BY DEF IInv, Door!TypeOK, Door!AccountRows
<1>2. PICK i \in entered[account[a].chat] : tokens[i].user = a /\ tokens[i].to = account[a].email
  BY DEF Door!KnownByCode
<1>3. i \in entered'[account[a].chat] /\ i \in 1..Len(tokens)
  BY <1>1, <1>2 DEF EnteredKept
<1>4. QED  BY <1>2, <1>3

\* The account of a turn whose code was right is known by this code.
LEMMA KnownByThis ==
  ASSUME IInv, Door!KnownByCode, NEW c \in Chats, NEW a \in Accounts, NEW row \in Door!AccountRows,
         account' = [account EXCEPT ![a] = row], UNCHANGED <<start, tokens, entered>>,
         row.chat = None \/ (row.chat = c /\ \E i \in entered[c] : tokens[i].user = a /\ tokens[i].to = row.email)
  PROVE  Door!KnownByCode'
<1>1. account'[a] = row /\ \A b \in Accounts \ {a} : account'[b] = account[b]
  BY DEF IInv, Door!TypeOK
<1>2. QED  BY <1>1 DEF Door!KnownByCode

LEMMA SameCodes ==
  ASSUME UNCHANGED <<tokens, entered>>
  PROVE  EnteredKept /\ \A i \in 1..Len(tokens) : tokens'[i].user = tokens[i].user /\ tokens'[i].to = tokens[i].to
BY DEF EnteredKept

LEMMA Message_Known ==
  ASSUME Door!Given, IInv, Door!KnownByCode, NEW c \in Chats, Door!Message(c)
  PROVE  Door!KnownByCode'
<1>1. UNCHANGED <<tokens, entered, start>>
  BY DEF Door!Message, Door!GiveAddress, Door!SetUpAddress, Door!Fill, Door!Register, Door!Abandon,
     Door!SetUpRetry, Door!Secure, Door!TypeCode, Door!sessions
<1>2. CASE Door!Register(c)
  <2>1. PICK a \in Accounts, row \in Door!AccountRows : row.chat = None /\ account' = [account EXCEPT ![a] = row]
    BY <1>2, Register_Fits
  <2> QED BY <1>1, <2>1, KnownByThis
<1>3. CASE ~Door!Register(c)
  <2>1. UNCHANGED account
    BY <1>3 DEF Door!Message, Door!GiveAddress, Door!SetUpAddress, Door!Fill, Door!Abandon, Door!SetUpRetry,
       Door!Secure, Door!TypeCode, Door!sessions
  <2> QED BY <1>1, <2>1, SameCodes, KnownStays
<1>4. QED  BY <1>2, <1>3

LEMMA Send_Known ==
  ASSUME Door!Given, IInv, Door!KnownByCode, NEW c \in Chats, Door!Send(c)
  PROVE  Door!KnownByCode'
<1>1. UNCHANGED <<account, start, entered>> /\ EnteredKept
  BY DEF Door!Send, Door!Ask, Door!Void, Door!Make, Door!Mail, Door!MailFails, Door!Note, Door!sessions, EnteredKept
<1>2. CASE Door!Void(c)
  BY <1>1, <1>2, Void_Fits, KnownStays DEF CodesKept
<1>3. CASE Door!Make(c)
  BY <1>1, <1>3, Make_Fits, KnownStays
<1>4. CASE Door!Ask(c) \/ Door!Mail(c) \/ Door!MailFails(c) \/ Door!Note(c)
  <2>1. UNCHANGED tokens
    BY <1>4 DEF Door!Ask, Door!Mail, Door!MailFails, Door!Note, Door!sessions
  <2> QED BY <1>1, <2>1, KnownStays
<1>5. QED  BY <1>2, <1>3, <1>4 DEF Door!Send

LEMMA Verify_Known ==
  ASSUME Door!Given, IInv, Door!KnownByCode, NEW c \in Chats, Door!Verify(c)
  PROVE  Door!KnownByCode'
<1>1. UNCHANGED <<account, start>>
  BY DEF Door!Verify, Door!Look, Door!Burn, Door!Count, Door!Compare, Door!Use, Door!sessions
<1>2. CASE Door!Look(c)
  <2>1. UNCHANGED <<tokens, entered>>
    BY <1>2 DEF Door!Look, Door!sessions
  <2> QED BY <1>1, <2>1, SameCodes, KnownStays
<1>3. CASE Door!Burn(c) \/ Door!Count(c) \/ Door!Compare(c)
  <2>1. EnteredKept
    BY <1>3 DEF Door!Burn, Door!Count, Door!Compare, EnteredKept
  <2>2. CodesKept
    BY <1>3, Burn_Fits, Count_Fits, Compare_Fits
  <2> QED BY <1>1, <2>1, <2>2, KnownStays DEF CodesKept
<1>4. CASE Door!Use(c)
  BY <1>1, <1>4, Use_Fits, KnownStays DEF CodesKept
<1>5. QED  BY <1>2, <1>3, <1>4 DEF Door!Verify

LEMMA Enter_Known ==
  ASSUME Door!Given, IInv, Door!KnownByCode, NEW c \in Chats, Door!Enter(c)
  PROVE  Door!KnownByCode'
<1> PICK s : s = turn[c]
  OBVIOUS
<1>1. UNCHANGED <<start, tokens, entered>>
  BY DEF Door!Enter, Door!Bind, Door!SaveAddress, Door!Settle, Door!sessions
<1>2. s.pc = "act" /\ TurnFits(c, s) => /\ s.tok \in entered[c] /\ tokens[s.tok].user = s.user
                                        /\ tokens[s.tok].to = SentTo(s)
  BY DEF TurnFits, Found
<1>3. CASE UNCHANGED account
  BY <1>1, <1>3, SameCodes, KnownStays
<1>4. CASE Door!Bind(c) /\ account' # account
  <2> PICK row : row = [account[s.user] EXCEPT !.chat = c]
    OBVIOUS
  <2>1. /\ TurnFits(c, s) /\ s.pc = "act" /\ s.goal = "link" /\ s.user \in Accounts
        /\ account' = [account EXCEPT ![s.user] = row]
    BY <1>4, Bind_Fits
  <2>2. row \in Door!AccountRows /\ row.chat = c /\ row.email = account[s.user].email
    <3>1. account[s.user] \in Door!AccountRows
      BY <2>1 DEF IInv, Door!TypeOK
    <3> QED BY <3>1 DEF Door!AccountRows
  <2>3. \E i \in entered[c] : tokens[i].user = s.user /\ tokens[i].to = row.email
    BY <1>2, <2>1, <2>2 DEF SentTo
  <2> QED BY <1>1, <2>1, <2>2, <2>3, KnownByThis
<1>5. CASE Door!SaveAddress(c)
  <2> PICK row : row = [account[s.user] EXCEPT !.email = s.to]
    OBVIOUS
  <2>1. /\ TurnFits(c, s) /\ s.pc = "act" /\ s.goal = "setup" /\ s.user \in Accounts
        /\ account' = [account EXCEPT ![s.user] = row]
    BY <1>5, SaveAddress_Fits
  <2>2. account[s.user].chat = c /\ s.to \in Addresses
    BY <2>1 DEF TurnFits, SettingUp
  <2>3. row \in Door!AccountRows /\ row.chat = c /\ row.email = s.to
    BY <2>1, <2>2 DEF IInv, Door!TypeOK, Door!AccountRows
  <2>4. \E i \in entered[c] : tokens[i].user = s.user /\ tokens[i].to = row.email
    BY <1>2, <2>1, <2>3 DEF SentTo
  <2> QED BY <1>1, <2>1, <2>3, <2>4, KnownByThis
<1>6. CASE Door!Settle(c)
  BY <1>3, <1>6 DEF Door!Settle
<1>7. QED  BY <1>3, <1>4, <1>5, <1>6 DEF Door!Enter

\* KnownByCode: a chat is bound to an account, and an address saved on one, only with a code that was given in that
\* chat and mailed for that account to that address: _handle_otp_submission, bind_chat_phone and _set_up_email, with
\* sessions that run out and codes that other chats ask for in between.
THEOREM BoundByCode == Door!Spec => []Door!KnownByCode
<1> USE DoorGiven
<1>1. Door!Init => Door!KnownByCode
  BY DEF Door!Init, Door!KnownByCode
<1>2. IInv /\ Door!KnownByCode /\ [Door!Next]_(Door!vars) => Door!KnownByCode'
  <2> SUFFICES ASSUME IInv, Door!KnownByCode, [Door!Next]_(Door!vars) PROVE Door!KnownByCode'
    OBVIOUS
  <2>1. ASSUME NEW c \in Chats, Door!Lapse(c) \/ Door!Die(c) PROVE Door!KnownByCode'
    <3>1. UNCHANGED <<account, start, tokens, entered>>
      BY <2>1 DEF Door!Lapse, Door!Die
    <3> QED BY <3>1, SameCodes, KnownStays
  <2>2. ASSUME NEW a \in Accounts, Door!Later(a) PROVE Door!KnownByCode'
    <3>1. UNCHANGED <<account, start, tokens, entered>>
      BY <2>2 DEF Door!Later
    <3> QED BY <3>1, SameCodes, KnownStays
  <2>3. ASSUME NEW i \in 1..Len(tokens), Door!Expire(i) PROVE Door!KnownByCode'
    <3>1. UNCHANGED <<account, start>> /\ EnteredKept
      BY <2>3 DEF Door!Expire, EnteredKept
    <3> QED BY <2>3, <3>1, Expire_Fits, KnownStays DEF CodesKept
  <2>4. CASE UNCHANGED Door!vars
    <3>1. UNCHANGED <<account, start, tokens, entered>>
      BY <2>4 DEF Door!vars
    <3> QED BY <3>1, SameCodes, KnownStays
  <2> QED BY <2>1, <2>2, <2>3, <2>4, Message_Known, Send_Known, Verify_Known, Enter_Known DEF Door!Next
<1>3. QED  BY <1>1, <1>2, Typing, PTL DEF Door!Spec

-----------------------------------------------------------------------------
(* Guesses are counted *)

LEMMA ChatsAreFinite == ASSUME Door!Given PROVE IsFiniteSet(Chats)
BY DEF Door!Given, Door!IsFiniteSet, IsFiniteSet

LEMMA ChatsCounted == Door!Cardinality(Chats) = Cardinality(Chats)
BY DEF Door!Cardinality, Cardinality

\* The turns that are to compare a code, or read its count before another guess was counted, are among the chats.
LEMMA Guessing ==
  ASSUME Door!Given, NEW S \in SUBSET Chats
  PROVE  /\ IsFiniteSet(S) /\ Cardinality(S) \in Nat /\ Cardinality(Chats) \in Nat
         /\ Cardinality(S) <= Cardinality(Chats)
         /\ \A T \in SUBSET S : Cardinality(T) \in Nat /\ Cardinality(T) <= Cardinality(S)
<1>1. IsFiniteSet(Chats) /\ Cardinality(Chats) \in Nat
  BY ChatsAreFinite, FS_CardinalityType
<1>2. \A T \in SUBSET Chats : IsFiniteSet(T) /\ Cardinality(T) \in Nat /\ Cardinality(T) <= Cardinality(Chats)
  BY <1>1, FS_Subset, FS_CardinalityType
<1>3. \A T \in SUBSET S : Cardinality(T) <= Cardinality(S)
  BY <1>2, FS_Subset
<1>4. QED  BY <1>1, <1>2, <1>3

LEMMA GuessingNow ==
  ASSUME NEW i
  PROVE  /\ Comparing(i) \in SUBSET Chats /\ Counting(i) \in SUBSET Chats
         /\ Comparing(i)' \in SUBSET Chats /\ Counting(i)' \in SUBSET Chats
BY DEF Comparing, Counting

\* The counts of the codes that were there.
SameCounts ==
  /\ Len(tokens') = Len(tokens)
  /\ \A i \in 1..Len(tokens) : tokens'[i].attempts = tokens[i].attempts /\ tokens'[i].tried = tokens[i].tried

OtherTurnsStay(c) == \A d \in Chats \ {c} : turn'[d] = turn[d]

\* A turn that is nowhere near comparing leaves the two sets as they are, or smaller.
LEMMA QuietTurn ==
  ASSUME NEW c, OtherTurnsStay(c),
         c \in Chats /\ turn'[c] # None => turn'[c] = turn[c] \/ turn'[c].pc \notin {"count", "compare"}, NEW i
  PROVE  Comparing(i)' \in SUBSET Comparing(i) /\ Counting(i)' \in SUBSET Counting(i)
BY DEF OtherTurnsStay, Comparing, Counting

LEMMA OneMoreLeft ==
  ASSUME NEW attempts \in Nat, NEW counting \in Nat, NEW max \in Nat, NEW all \in Nat,
         attempts <= max - 1, counting <= all
  PROVE  attempts + counting <= max + all - 1
OBVIOUS

LEMMA Sizes ==
  ASSUME Door!Given, NEW i
  PROVE  /\ Cardinality(Comparing(i)) \in Nat /\ Cardinality(Counting(i)) \in Nat
         /\ Cardinality(Comparing(i)') \in Nat /\ Cardinality(Counting(i)') \in Nat
         /\ Cardinality(Comparing(i)') <= Cardinality(Chats) /\ Cardinality(Counting(i)') <= Cardinality(Chats)
         /\ Cardinality(Chats) \in Nat
BY GuessingNow, Guessing

LEMMA Smaller ==
  ASSUME Door!Given, NEW i, Comparing(i)' \in SUBSET Comparing(i)
  PROVE  Cardinality(Comparing(i)') <= Cardinality(Comparing(i))
BY GuessingNow, Guessing

LEMMA Fewer ==
  ASSUME Door!Given, NEW i, Counting(i)' \in SUBSET Counting(i)
  PROVE  Cardinality(Counting(i)') <= Cardinality(Counting(i))
BY GuessingNow, Guessing

\* A code nobody counted or compared in a step, while turns only leave.
LEMMA CodeLeftAlone ==
  ASSUME Door!Given, IInv, NEW i \in 1..Len(tokens), CodeCounted(i),
         tokens'[i].attempts = tokens[i].attempts, tokens'[i].tried = tokens[i].tried,
         Comparing(i)' \in SUBSET Comparing(i), Counting(i)' \in SUBSET Counting(i)
  PROVE  CodeCounted(i)'
<1>1. tokens[i].attempts \in Nat /\ tokens[i].tried \in Nat /\ MaxAttempts \in Nat
  BY CodeParts DEF Door!Given
<1>2. Cardinality(Comparing(i)') <= Cardinality(Comparing(i)) /\ Cardinality(Counting(i)') <= Cardinality(Counting(i))
  BY Smaller, Fewer
<1>3. /\ tokens[i].tried + Cardinality(Comparing(i)) <= tokens[i].attempts
      /\ tokens[i].attempts + Cardinality(Counting(i)) <= MaxAttempts + Cardinality(Chats) - 1
  BY DEF CodeCounted
<1>4. /\ Cardinality(Comparing(i)) \in Nat /\ Cardinality(Counting(i)) \in Nat
      /\ Cardinality(Comparing(i)') \in Nat /\ Cardinality(Counting(i)') \in Nat
      /\ MaxAttempts + Cardinality(Chats) - 1 \in Int
  BY <1>1, Sizes
<1>5. tokens[i].tried + Cardinality(Comparing(i)') <= tokens[i].attempts
  BY <1>1, <1>2, <1>3, <1>4
<1>6. tokens[i].attempts + Cardinality(Counting(i)') <= MaxAttempts + Cardinality(Chats) - 1
  BY <1>1, <1>2, <1>3, <1>4
<1>7. QED  BY <1>5, <1>6 DEF CodeCounted

LEMMA QuietCounted ==
  ASSUME Door!Given, IInv, Counted, NEW c, SameCounts, OtherTurnsStay(c),
         c \in Chats /\ turn'[c] # None => turn'[c] = turn[c] \/ turn'[c].pc \notin {"count", "compare"}
  PROVE  Counted'
<1>1. ASSUME NEW i \in 1..Len(tokens) PROVE CodeCounted(i)'
  <2>1. Comparing(i)' \in SUBSET Comparing(i) /\ Counting(i)' \in SUBSET Counting(i)
    BY QuietTurn
  <2> QED BY <2>1, CodeLeftAlone DEF Counted, SameCounts
<1>2. QED  BY <1>1 DEF Counted, SameCounts

LEMMA Make_Counted ==
  ASSUME Door!Given, IInv, Counted, NEW c \in Chats, Door!Make(c)
  PROVE  Counted'
<1>1. Door!TypeOK /\ turn[c] # None /\ turn' = [turn EXCEPT ![c].pc = "mail"]
  BY DEF IInv, Door!Make, Door!At, Door!Go
<1>2. OtherTurnsStay(c) /\ turn'[c].pc = "mail"
  BY <1>1 DEF Door!TypeOK, OtherTurnsStay, Door!Turns
<1> PICK n : n = Len(tokens)
  OBVIOUS
<1>3. /\ n \in Nat /\ Len(tokens') = n + 1 /\ \A i \in 1..n : tokens'[i] = tokens[i]
      /\ tokens'[n + 1].attempts = 0 /\ tokens'[n + 1].tried = 0
  BY <1>1, Make_Fits DEF Door!TypeOK
<1>4. ASSUME NEW i \in 1..n PROVE CodeCounted(i)'
  <2>1. Comparing(i)' \in SUBSET Comparing(i) /\ Counting(i)' \in SUBSET Counting(i)
    BY <1>2, QuietTurn
  <2> QED BY <1>3, <2>1, CodeLeftAlone DEF Counted
<1> PICK m : m = n + 1
  OBVIOUS
<1>5. Comparing(m)' = {} /\ Counting(m)' = {}
  <2>1. \A d \in Chats : turn[d] # None /\ turn[d].pc \in {"count", "compare"} => turn[d].tok \in 1..n
    BY TurnWithCode DEF Found
  <2>2. \A d \in Chats : turn'[d] # None /\ turn'[d].pc \in {"count", "compare"} => turn'[d].tok \in 1..n
    BY <1>2, <2>1 DEF OtherTurnsStay
  <2>3. m \notin 1..n
    BY <1>3
  <2> QED BY <2>2, <2>3 DEF Comparing, Counting
<1>6. Cardinality(Comparing(m)') = 0 /\ Cardinality(Counting(m)') = 0
  BY <1>5, FS_EmptySet
<1>7. MaxAttempts \in Nat \ {0} /\ Cardinality(Chats) \in Nat
  BY Guessing DEF Door!Given
<1>8. CodeCounted(m)'
  <2>1. tokens'[m].attempts = 0 /\ tokens'[m].tried = 0
    BY <1>3
  <2>2. /\ tokens'[m].tried + Cardinality(Comparing(m)') <= tokens'[m].attempts
        /\ tokens'[m].attempts + Cardinality(Counting(m)') <= MaxAttempts + Cardinality(Chats) - 1
    BY <1>6, <1>7, <2>1
  <2> QED BY <2>2 DEF CodeCounted
<1>9. \A i \in 1..Len(tokens') : i \in 1..n \/ i = m
  BY <1>3
<1>10. QED  BY <1>4, <1>8, <1>9 DEF Counted

\* A turn that reads the count of a code finds guesses left, so there were fewer than all of them.
LEMMA Look_Counted ==
  ASSUME Door!Given, IInv, Counted, NEW c \in Chats, Door!Look(c)
  PROVE  Counted'
<1>1. UNCHANGED tokens /\ Door!TypeOK
  BY DEF Door!Look, IInv
<1> PICK s : s = turn[c]
  OBVIOUS
<1>2. OtherTurnsStay(c)
  BY <1>1 DEF Door!Look, Door!Over, OtherTurnsStay, Door!TypeOK
<1>3. s # None /\ s \in Door!Turns /\ s.pc = "look"
  BY TurnAt DEF Door!Look, Door!At
<1>4. SameCounts
  BY <1>1 DEF SameCounts
<1>5. CASE turn' = [turn EXCEPT ![c] = None]
  <2>1. turn'[c] = None
    BY <1>1, <1>5 DEF Door!TypeOK
  <2> QED BY <1>2, <1>4, <2>1, QuietCounted
<1>6. ASSUME NEW k \in Door!Newest(s.user), turn' = [turn EXCEPT ![c] = [s EXCEPT !.pc = "burn", !.tok = k]]
      PROVE  Counted'
  <2>1. turn'[c] = [s EXCEPT !.pc = "burn", !.tok = k]
    BY <1>1, <1>6 DEF Door!TypeOK
  <2>2. turn'[c].pc = "burn"
    BY <1>3, <2>1 DEF Door!Turns
  <2> QED BY <1>2, <1>4, <2>2, QuietCounted
<1>7. ASSUME NEW k \in Door!Newest(s.user), turn' = [turn EXCEPT ![c] = [s EXCEPT !.pc = "count", !.tok = k]],
             ~Door!Spent(k)
      PROVE  Counted'
  <2>1. turn'[c] = [s EXCEPT !.pc = "count", !.tok = k]
    BY <1>1, <1>7 DEF Door!TypeOK
  <2>2. turn'[c].pc = "count" /\ turn'[c].tok = k
    BY <1>3, <2>1 DEF Door!Turns
  <2>3. ASSUME NEW i \in 1..Len(tokens) PROVE CodeCounted(i)'
    <3>1. Comparing(i)' \in SUBSET Comparing(i)
      BY <1>2, <2>2 DEF Comparing, OtherTurnsStay
    <3>2. CASE i # k
      <4>1. Counting(i)' \in SUBSET Counting(i)
        BY <1>2, <2>2, <3>2 DEF Counting, OtherTurnsStay
      <4> QED BY <1>1, <3>1, <4>1, CodeLeftAlone DEF Counted
    <3>3. CASE i = k
      <4>1. tokens[i].attempts \in Nat /\ tokens[i].tried \in Nat /\ MaxAttempts \in Nat
        BY CodeParts DEF Door!Given
      <4>2. tokens[i].attempts <= MaxAttempts - 1
        BY <1>7, <3>3, <4>1 DEF Door!Spent
      <4>3. tokens[i].tried + Cardinality(Comparing(i)) <= tokens[i].attempts
        BY DEF Counted, CodeCounted
      <4>4. /\ tokens[i].tried + Cardinality(Comparing(i)') <= tokens[i].attempts
            /\ tokens[i].attempts + Cardinality(Counting(i)') <= MaxAttempts + Cardinality(Chats) - 1
        <5>1. Cardinality(Comparing(i)') <= Cardinality(Comparing(i))
          BY <3>1, Smaller
        <5>2. /\ Cardinality(Comparing(i)) \in Nat /\ Cardinality(Comparing(i)') \in Nat
              /\ Cardinality(Counting(i)') \in Nat /\ Cardinality(Chats) \in Nat
              /\ Cardinality(Counting(i)') <= Cardinality(Chats)
          BY Sizes
        <5>3. tokens[i].tried + Cardinality(Comparing(i)') <= tokens[i].attempts
          BY <4>1, <4>3, <5>1, <5>2
        <5>4. tokens[i].attempts + Cardinality(Counting(i)') <= MaxAttempts + Cardinality(Chats) - 1
          BY <4>1, <4>2, <5>2, OneMoreLeft
        <5> QED BY <5>3, <5>4
      <4> QED BY <1>1, <4>4 DEF CodeCounted
    <3> QED BY <3>2, <3>3
  <2> QED BY <1>1, <2>3 DEF Counted
<1>8. \/ turn' = [turn EXCEPT ![c] = None]
      \/ \E k \in Door!Newest(s.user) :
           \/ turn' = [turn EXCEPT ![c] = [s EXCEPT !.pc = "burn", !.tok = k]]
           \/ turn' = [turn EXCEPT ![c] = [s EXCEPT !.pc = "count", !.tok = k]] /\ ~Door!Spent(k)
  <2>1. CASE Door!Newest(s.user) = {} /\ Door!Over(c)
    BY <2>1 DEF Door!Over
  <2>2. ASSUME NEW k \in Door!Newest(s.user),
               turn' = [turn EXCEPT ![c] =
                 IF Door!Spent(k) THEN [@ EXCEPT !.pc = "burn", !.tok = k]
                 ELSE IF tokens[k].expired THEN None
                 ELSE [@ EXCEPT !.pc = "count", !.tok = k]]
        PROVE  \/ turn' = [turn EXCEPT ![c] = None]
               \/ turn' = [turn EXCEPT ![c] = [s EXCEPT !.pc = "burn", !.tok = k]]
               \/ turn' = [turn EXCEPT ![c] = [s EXCEPT !.pc = "count", !.tok = k]] /\ ~Door!Spent(k)
    BY <2>2
  <2> QED BY <2>1, <2>2 DEF Door!Look
<1>9. QED  BY <1>5, <1>6, <1>7, <1>8

\* The guess of a turn is counted: it was among those that read the count, now it is to compare.
LEMMA Count_Counted ==
  ASSUME Door!Given, IInv, Counted, NEW c \in Chats, Door!Count(c)
  PROVE  Counted'
<1> PICK s : s = turn[c]
  OBVIOUS
<1> PICK k : k = s.tok
  OBVIOUS
<1>1. Door!TypeOK /\ s # None /\ s.pc = "count" /\ s \in Door!Turns /\ k \in 1..Len(tokens)
  BY TurnWithCode DEF Door!Count, Door!At, Found, IInv
<1>2. turn'[c] = [s EXCEPT !.pc = "compare"] /\ OtherTurnsStay(c)
  BY <1>1 DEF Door!Count, Door!Go, Door!TypeOK, OtherTurnsStay
<1>3. turn'[c].pc = "compare" /\ turn'[c].tok = k
  BY <1>1, <1>2 DEF Door!Turns
<1> DEFINE x == [tokens[k] EXCEPT !.attempts = @ + 1]
<1>4. /\ x \in Door!Tokens /\ x.user = tokens[k].user /\ x.to = tokens[k].to /\ x.used = tokens[k].used
      /\ x.attempts = tokens[k].attempts + 1 /\ x.tried = tokens[k].tried
  BY <1>1, CodeParts DEF Door!Tokens
<1>5. tokens' = [tokens EXCEPT ![k] = x]
  BY DEF Door!Count
<1> HIDE DEF x
<1>6. Len(tokens') = Len(tokens) /\ tokens'[k] = x /\ \A j \in 1..Len(tokens) : j # k => tokens'[j] = tokens[j]
  BY <1>1, <1>4, <1>5, OneCode DEF CodesKept
<1>7. ASSUME NEW i \in 1..Len(tokens), i # k PROVE CodeCounted(i)'
  <2>1. Comparing(i)' \in SUBSET Comparing(i) /\ Counting(i)' \in SUBSET Counting(i)
    BY <1>2, <1>3, <1>7 DEF Comparing, Counting, OtherTurnsStay
  <2> QED BY <1>6, <1>7, <2>1, CodeLeftAlone DEF Counted
<1>8. CodeCounted(k)'
  <2>1. /\ tokens[k].attempts \in Nat /\ tokens[k].tried \in Nat /\ MaxAttempts \in Nat
        /\ tokens'[k].attempts = tokens[k].attempts + 1 /\ tokens'[k].tried = tokens[k].tried
    BY <1>1, <1>4, <1>6, CodeParts DEF Door!Given
  <2>2. IsFiniteSet(Comparing(k)) /\ IsFiniteSet(Counting(k)) /\ IsFiniteSet(Comparing(k) \cup {c})
    BY GuessingNow, Guessing, FS_AddElement
  <2>3. Counting(k)' \in SUBSET (Counting(k) \ {c}) /\ c \in Counting(k)
    BY <1>1, <1>2, <1>3 DEF Counting, OtherTurnsStay
  <2>4. Comparing(k)' \in SUBSET (Comparing(k) \cup {c}) /\ c \notin Comparing(k)
    BY <1>1, <1>2, <1>3 DEF Comparing, OtherTurnsStay
  <2>5. Cardinality(Counting(k) \ {c}) = Cardinality(Counting(k)) - 1 /\ IsFiniteSet(Counting(k) \ {c})
    BY <2>2, <2>3, FS_RemoveElement
  <2>6. Cardinality(Comparing(k) \cup {c}) = Cardinality(Comparing(k)) + 1
    BY <2>2, <2>4, FS_AddElement
  <2>7. Cardinality(Counting(k)') <= Cardinality(Counting(k)) - 1
    BY <2>3, <2>5, FS_Subset
  <2>8. Cardinality(Comparing(k)') <= Cardinality(Comparing(k)) + 1
    BY <2>2, <2>4, <2>6, FS_Subset
  <2>9. /\ tokens[k].tried + Cardinality(Comparing(k)) <= tokens[k].attempts
        /\ tokens[k].attempts + Cardinality(Counting(k)) <= MaxAttempts + Cardinality(Chats) - 1
    BY <1>1 DEF Counted, CodeCounted
  <2>10. /\ tokens'[k].tried + Cardinality(Comparing(k)') <= tokens'[k].attempts
         /\ tokens'[k].attempts + Cardinality(Counting(k)') <= MaxAttempts + Cardinality(Chats) - 1
    BY <2>1, <2>7, <2>8, <2>9, Sizes
  <2> QED BY <2>10 DEF CodeCounted
<1>9. QED  BY <1>6, <1>7, <1>8 DEF Counted

\* The guess is compared: the turn is no longer among those that are to compare.
LEMMA Compare_Counted ==
  ASSUME Door!Given, IInv, Counted, NEW c \in Chats, Door!Compare(c)
  PROVE  Counted'
<1> PICK s : s = turn[c]
  OBVIOUS
<1> PICK k : k = s.tok
  OBVIOUS
<1>1. Door!TypeOK /\ s # None /\ s.pc = "compare" /\ s \in Door!Turns /\ k \in 1..Len(tokens)
  BY TurnWithCode DEF Door!Compare, Door!At, Found, IInv
<1>2. (turn'[c] = [s EXCEPT !.pc = "use"] \/ turn'[c] = None) /\ OtherTurnsStay(c)
  BY <1>1 DEF Door!Compare, Door!Go, Door!Over, Door!TypeOK, OtherTurnsStay
<1>3. turn'[c] = None \/ turn'[c].pc = "use"
  BY <1>1, <1>2 DEF Door!Turns
<1> DEFINE x == [tokens[k] EXCEPT !.tried = @ + 1]
<1>4. /\ x \in Door!Tokens /\ x.user = tokens[k].user /\ x.to = tokens[k].to /\ x.used = tokens[k].used
      /\ x.tried = tokens[k].tried + 1 /\ x.attempts = tokens[k].attempts
  BY <1>1, CodeParts DEF Door!Tokens
<1>5. tokens' = [tokens EXCEPT ![k] = x]
  BY DEF Door!Compare
<1> HIDE DEF x
<1>6. Len(tokens') = Len(tokens) /\ tokens'[k] = x /\ \A j \in 1..Len(tokens) : j # k => tokens'[j] = tokens[j]
  BY <1>1, <1>4, <1>5, OneCode DEF CodesKept
<1>7. \A i : Comparing(i)' \in SUBSET (Comparing(i) \ {c}) /\ Counting(i)' \in SUBSET Counting(i)
  BY <1>2, <1>3 DEF Comparing, Counting, OtherTurnsStay
<1>8. ASSUME NEW i \in 1..Len(tokens), i # k PROVE CodeCounted(i)'
  BY <1>6, <1>7, <1>8, CodeLeftAlone DEF Counted
<1>9. CodeCounted(k)'
  <2>1. /\ tokens[k].attempts \in Nat /\ tokens[k].tried \in Nat /\ MaxAttempts \in Nat
        /\ tokens'[k].tried = tokens[k].tried + 1 /\ tokens'[k].attempts = tokens[k].attempts
    BY <1>1, <1>4, <1>6, CodeParts DEF Door!Given
  <2>2. IsFiniteSet(Comparing(k)) /\ c \in Comparing(k)
    BY <1>1, GuessingNow, Guessing DEF Comparing
  <2>3. Cardinality(Comparing(k) \ {c}) = Cardinality(Comparing(k)) - 1 /\ IsFiniteSet(Comparing(k) \ {c})
    BY <2>2, FS_RemoveElement
  <2>4. Cardinality(Comparing(k)') <= Cardinality(Comparing(k)) - 1
    BY <1>7, <2>3, FS_Subset
  <2>5. Cardinality(Counting(k)') <= Cardinality(Counting(k))
    BY <1>7, Fewer
  <2>6. /\ tokens[k].tried + Cardinality(Comparing(k)) <= tokens[k].attempts
        /\ tokens[k].attempts + Cardinality(Counting(k)) <= MaxAttempts + Cardinality(Chats) - 1
    BY <1>1 DEF Counted, CodeCounted
  <2>7. /\ tokens'[k].tried + Cardinality(Comparing(k)') <= tokens'[k].attempts
        /\ tokens'[k].attempts + Cardinality(Counting(k)') <= MaxAttempts + Cardinality(Chats) - 1
    BY <2>1, <2>4, <2>5, <2>6, Sizes
  <2> QED BY <2>7 DEF CodeCounted
<1>10. QED  BY <1>6, <1>8, <1>9 DEF Counted

\* A code that is used, burnt or out of date keeps its counts.
LEMMA OneCodeCounts ==
  ASSUME IInv, NEW k \in 1..Len(tokens), NEW x \in Door!Tokens, tokens' = [tokens EXCEPT ![k] = x],
         x.user = tokens[k].user, x.to = tokens[k].to, tokens[k].used => x.used,
         x.attempts = tokens[k].attempts, x.tried = tokens[k].tried
  PROVE  SameCounts
<1>1. Len(tokens') = Len(tokens) /\ tokens'[k] = x /\ \A j \in 1..Len(tokens) : j # k => tokens'[j] = tokens[j]
  BY OneCode DEF CodesKept
<1>2. QED  BY <1>1 DEF SameCounts

LEMMA Void_Counted ==
  ASSUME Door!Given, IInv, Counted, NEW c \in Chats, Door!Void(c)
  PROVE  Counted'
<1>1. Door!TypeOK /\ turn[c] # None /\ turn[c] \in Door!Turns
  BY TurnAt DEF Door!Void, Door!At, IInv
<1>2. OtherTurnsStay(c) /\ turn'[c].pc = "make"
  BY <1>1 DEF Door!Void, Door!Go, Door!TypeOK, OtherTurnsStay, Door!Turns
<1> PICK n : n = Len(tokens)
  OBVIOUS
<1>3. n \in Nat /\ DOMAIN tokens = 1..n /\ \A i \in 1..n : tokens[i] \in Door!Tokens
  BY <1>1, Elements DEF Door!TypeOK
<1>4. tokens' = [i \in 1..n |-> IF tokens[i].user = turn[c].user THEN [tokens[i] EXCEPT !.used = TRUE] ELSE tokens[i]]
  BY <1>3 DEF Door!Void
<1>5. Len(tokens') = n
  BY Void_Fits DEF CodesKept
<1>6. \A i \in 1..n : tokens'[i].attempts = tokens[i].attempts /\ tokens'[i].tried = tokens[i].tried
  BY <1>3, <1>4 DEF Door!Tokens
<1>7. SameCounts
  BY <1>5, <1>6 DEF SameCounts
<1>8. QED  BY <1>2, <1>7, QuietCounted

LEMMA Burn_Counted ==
  ASSUME Door!Given, IInv, Counted, NEW c \in Chats, Door!Burn(c)
  PROVE  Counted'
<1> PICK k : k = turn[c].tok
  OBVIOUS
<1>1. Door!TypeOK /\ k \in 1..Len(tokens)
  BY TurnWithCode DEF Door!Burn, Door!At, Found, IInv
<1>2. OtherTurnsStay(c) /\ turn'[c] = None
  BY <1>1 DEF Door!Burn, Door!Over, Door!TypeOK, OtherTurnsStay
<1> DEFINE x == [tokens[k] EXCEPT !.used = TRUE]
<1>3. /\ x \in Door!Tokens /\ x.user = tokens[k].user /\ x.to = tokens[k].to /\ x.used
      /\ x.tried = tokens[k].tried /\ x.attempts = tokens[k].attempts
  BY <1>1, CodeParts DEF Door!Tokens
<1>4. tokens' = [tokens EXCEPT ![k] = x]
  BY DEF Door!Burn
<1> HIDE DEF x
<1>5. SameCounts
  BY <1>1, <1>3, <1>4, OneCodeCounts
<1>6. QED  BY <1>2, <1>5, QuietCounted

LEMMA Use_Counted ==
  ASSUME Door!Given, IInv, Counted, NEW c \in Chats, Door!Use(c)
  PROVE  Counted'
<1> PICK k : k = turn[c].tok
  OBVIOUS
<1>1. Door!TypeOK /\ k \in 1..Len(tokens) /\ turn[c] \in Door!Turns
  BY TurnWithCode DEF Door!Use, Door!At, Found, IInv
<1>2. OtherTurnsStay(c) /\ turn'[c].pc \in {"settle", "act"}
  BY <1>1 DEF Door!Use, Door!Go, Door!TypeOK, OtherTurnsStay, Door!Turns
<1> DEFINE x == [tokens[k] EXCEPT !.used = TRUE]
<1>3. /\ x \in Door!Tokens /\ x.user = tokens[k].user /\ x.to = tokens[k].to /\ x.used
      /\ x.tried = tokens[k].tried /\ x.attempts = tokens[k].attempts
  BY <1>1, CodeParts DEF Door!Tokens
<1>4. tokens' = [tokens EXCEPT ![k] = x]
  BY DEF Door!Use
<1> HIDE DEF x
<1>5. SameCounts
  BY <1>1, <1>3, <1>4, OneCodeCounts
<1>6. QED  BY <1>2, <1>5, QuietCounted

LEMMA Expire_Counted ==
  ASSUME Door!Given, IInv, Counted, NEW k \in 1..Len(tokens), Door!Expire(k)
  PROVE  Counted'
<1> DEFINE x == [tokens[k] EXCEPT !.expired = TRUE]
<1>1. /\ x \in Door!Tokens /\ x.user = tokens[k].user /\ x.to = tokens[k].to /\ x.used = tokens[k].used
      /\ x.tried = tokens[k].tried /\ x.attempts = tokens[k].attempts
  BY CodeParts DEF Door!Tokens
<1>2. tokens' = [tokens EXCEPT ![k] = x]
  BY DEF Door!Expire
<1> HIDE DEF x
<1>3. SameCounts
  BY <1>1, <1>2, OneCodeCounts
<1>4. UNCHANGED turn
  BY DEF Door!Expire
<1>5. \A c : OtherTurnsStay(c) /\ turn'[c] = turn[c]
  BY <1>4 DEF OtherTurnsStay
<1>6. QED  BY <1>3, <1>5, QuietCounted

\* A turn begins, goes on or ends where no code is counted or compared.
LEMMA Elsewhere ==
  ASSUME Door!Given, IInv, Counted, NEW c \in Chats, UNCHANGED tokens, NEW t,
         turn' = [turn EXCEPT ![c] = t], t = None \/ t.pc \notin {"count", "compare"}
  PROVE  Counted'
<1>1. OtherTurnsStay(c) /\ turn'[c] = t
  BY DEF IInv, Door!TypeOK, OtherTurnsStay
<1>2. SameCounts
  BY DEF SameCounts
<1>3. QED  BY <1>1, <1>2, QuietCounted

LEMMA NoTurn ==
  ASSUME Door!Given, IInv, Counted, UNCHANGED <<tokens, turn>>
  PROVE  Counted'
<1>1. \A c : OtherTurnsStay(c) /\ turn'[c] = turn[c]
  BY DEF OtherTurnsStay
<1>2. SameCounts
  BY DEF SameCounts
<1>3. QED  BY <1>1, <1>2, QuietCounted

\* A message begins at the first stage of a turn, or changes no turn.
LEMMA Message_Counted ==
  ASSUME Door!Given, IInv, Counted, NEW c \in Chats, Door!Message(c)
  PROVE  Counted'
<1>1. UNCHANGED tokens
  BY DEF Door!Message, Door!GiveAddress, Door!SetUpAddress, Door!Fill, Door!Register, Door!Abandon,
     Door!SetUpRetry, Door!Secure, Door!TypeCode
<1>2. ASSUME NEW stop \in {"ask", "look"}, NEW goal, NEW a, NEW to, NEW typed, Door!Begin(c, stop, goal, a, to, typed)
      PROVE  Counted'
  <2> PICK t : t = [pc |-> stop, goal |-> goal, user |-> a, to |-> to, typed |-> typed, tok |-> 0]
    OBVIOUS
  <2>1. turn' = [turn EXCEPT ![c] = t] /\ t.pc \notin {"count", "compare"}
    BY <1>2 DEF Door!Begin
  <2> QED BY <1>1, <2>1, Elsewhere
<1>3. CASE UNCHANGED turn
  BY <1>1, <1>3, NoTurn
<1>4. \/ UNCHANGED turn
      \/ \E stop \in {"ask", "look"} : \E goal, a, to, typed : Door!Begin(c, stop, goal, a, to, typed)
  <2>1. ASSUME NEW e \in Addresses, Door!GiveAddress(c, e) \/ Door!SetUpAddress(c, e)
        PROVE  UNCHANGED turn \/ \E stop \in {"ask", "look"} : \E goal, a, to, typed : Door!Begin(c, stop, goal, a,
               to, typed)
    BY <2>1 DEF Door!GiveAddress, Door!Submit, Door!SetUpAddress
  <2>2. ASSUME Door!Fill(c) \/ Door!Abandon(c) \/ Door!SetUpRetry(c) PROVE UNCHANGED turn
    BY <2>2 DEF Door!Fill, Door!Abandon, Door!SetUpRetry
  <2>3. ASSUME Door!Register(c) \/ Door!Secure(c) \/ Door!TypeCode(c)
        PROVE  \E stop \in {"ask", "look"} : \E goal, a, to, typed : Door!Begin(c, stop, goal, a, to, typed)
    BY <2>3 DEF Door!Register, Door!Secure, Door!TypeCode
  <2> QED BY <2>1, <2>2, <2>3 DEF Door!Message
<1>5. QED  BY <1>2, <1>3, <1>4

LEMMA Onward_Counted ==
  ASSUME Door!Given, IInv, Counted, NEW c \in Chats,
         Door!Ask(c) \/ Door!Mail(c) \/ Door!MailFails(c) \/ Door!Note(c) \/ Door!Bind(c) \/ Door!SaveAddress(c)
         \/ Door!Settle(c) \/ Door!Die(c)
  PROVE  Counted'
<1> PICK s : s = turn[c]
  OBVIOUS
<1>1. UNCHANGED tokens /\ s \in Door!Turns
  BY TurnAt DEF Door!Ask, Door!Mail, Door!MailFails, Door!Note, Door!Bind, Door!SaveAddress, Door!Settle, Door!Die,
     Door!At, Door!sessions
<1>2. CASE Door!Over(c)
  BY <1>1, <1>2, Elsewhere DEF Door!Over
<1>3. ASSUME NEW stop \in {"void", "note", "settle"}, Door!Go(c, stop) PROVE Counted'
  <2> PICK t : t = [s EXCEPT !.pc = stop]
    OBVIOUS
  <2>1. turn' = [turn EXCEPT ![c] = t] /\ t.pc \notin {"count", "compare"}
    BY <1>1, <1>3 DEF Door!Go, Door!Turns
  <2> QED BY <1>1, <2>1, Elsewhere
<1>4. Door!Over(c) \/ \E stop \in {"void", "note", "settle"} : Door!Go(c, stop)
  BY DEF Door!Ask, Door!Mail, Door!MailFails, Door!Note, Door!Bind, Door!SaveAddress, Door!Settle, Door!Die
<1>5. QED  BY <1>2, <1>3, <1>4

\* GuessesAreCounted: of a code no more guesses are compared than were counted, and only as many counted as it has
\* attempts and turns that read the count before the last of them was counted: verify_otp, which counts the guess
\* in a statement of its own, before it compares.
THEOREM GuessesCounted == Door!Spec => []Door!GuessesAreCounted
<1> USE DoorGiven
<1>1. Door!Init => Counted
  BY DEF Door!Init, Counted
<1>2. IInv /\ Counted /\ [Door!Next]_(Door!vars) => Counted'
  <2> SUFFICES ASSUME IInv, Counted, [Door!Next]_(Door!vars) PROVE Counted'
    OBVIOUS
  <2>1. ASSUME NEW c \in Chats, Door!Send(c) PROVE Counted'
    BY <2>1, Onward_Counted, Void_Counted, Make_Counted DEF Door!Send
  <2>2. ASSUME NEW c \in Chats, Door!Verify(c) PROVE Counted'
    BY <2>2, Look_Counted, Burn_Counted, Count_Counted, Compare_Counted, Use_Counted DEF Door!Verify
  <2>3. ASSUME NEW c \in Chats, Door!Enter(c) \/ Door!Die(c) PROVE Counted'
    BY <2>3, Onward_Counted DEF Door!Enter
  <2>4. ASSUME NEW c \in Chats, Door!Lapse(c) PROVE Counted'
    BY <2>4, NoTurn DEF Door!Lapse
  <2>5. ASSUME NEW a \in Accounts, Door!Later(a) PROVE Counted'
    BY <2>5, NoTurn DEF Door!Later
  <2>6. CASE UNCHANGED Door!vars
    BY <2>6, NoTurn DEF Door!vars
  <2> QED BY <2>1, <2>2, <2>3, <2>4, <2>5, <2>6, Message_Counted, Expire_Counted DEF Door!Next
<1>3. IInv /\ Counted => Door!GuessesAreCounted
  <2> SUFFICES ASSUME IInv, Counted, NEW i \in 1..Len(tokens)
               PROVE  /\ tokens[i].tried <= tokens[i].attempts
                      /\ tokens[i].attempts <= MaxAttempts + Cardinality(Chats) - 1
    BY ChatsCounted DEF Door!GuessesAreCounted
  <2>1. /\ tokens[i].tried + Cardinality(Comparing(i)) <= tokens[i].attempts
        /\ tokens[i].attempts + Cardinality(Counting(i)) <= MaxAttempts + Cardinality(Chats) - 1
    BY DEF Counted, CodeCounted
  <2>2. tokens[i].attempts \in Nat /\ tokens[i].tried \in Nat /\ MaxAttempts \in Nat
    BY CodeParts DEF Door!Given
  <2>3. Cardinality(Comparing(i)) \in Nat /\ Cardinality(Counting(i)) \in Nat /\ Cardinality(Chats) \in Nat
    BY Sizes
  <2>4. tokens[i].tried <= tokens[i].attempts
    BY <2>1, <2>2, <2>3
  <2>5. tokens[i].attempts <= MaxAttempts + Cardinality(Chats) - 1
    BY <2>1, <2>2, <2>3
  <2> QED BY <2>4, <2>5
<1>4. QED  BY <1>1, <1>2, <1>3, Typing, PTL DEF Door!Spec

\* KnownByCode, of the chats of Chat: both of the above.
THEOREM KnownByCodeHolds == Door!Spec => []KnownByCode
<1>1. Door!KnownByCode /\ Door!GuessesAreCounted => KnownByCode
  BY DEF KnownByCode
<1> QED BY <1>1, BoundByCode, GuessesCounted, PTL
=============================================================================
