------------------------------ MODULE FrontDoor ------------------------------
(***************************************************************************)
(* How a chat gets to know who writes: linking a chat to an account with   *)
(* an address and a mailed code, signing up, the address of a person an    *)
(* admin added without one, and the code that renews a session             *)
(* (routers/webhook.py, services/identity.py), on the one-time codes of    *)
(* services/otp_service.py.                                                *)
(*                                                                         *)
(* The messages of one chat are handled one at a time, those of different  *)
(* chats interleave, and two chats may ask for codes of one account.       *)
(* Every statement in the database, every mail and every change of the     *)
(* sessions is a step.  Of a message only its kind counts: an address, a   *)
(* number, a retry word, or anything else.                                 *)
(***************************************************************************)
EXTENDS Naturals, Sequences, FiniteSets

CONSTANTS
  Chats,
  Kind,        \* Kind[c]: "telegram" or "whatsapp"
  Accounts,
  Addresses,
  Mailbox,     \* Mailbox[c]: the addresses whose mail the person at chat c reads
  Starts,      \* the tables of accounts to start from
  Registers,   \* whether people may sign up in the chat
  MaxAttempts, \* otp_max_attempts
  None,
  MaxTokens,   \* bound: codes that are made
  MaxFaults    \* bound: mails that fail and turns that die

AccountRows == [made : BOOLEAN, email : Addresses \cup {None}, chat : Chats \cup {None}]

\* What the constants have to be.
Given ==
  /\ IsFiniteSet(Chats) /\ MaxAttempts \in Nat \ {0}
  /\ None \notin Chats \cup Addresses \cup Accounts
  /\ Starts \subseteq [Accounts -> AccountRows]

VARIABLES
  account,  \* the users table: whether the row is there, its email and its phone
  start,    \* history: what it was at first
  tokens,   \* otp_tokens, in the order of created_at
  recent,   \* accounts whose newest code is younger than the cooldown
  link,     \* link[c]: the session tglink:<phone>
  setup,    \* setup[a]: the address in the session emailsetup:<user>, or None
  asked,    \* chats whose session sec:<org>:<phone> waits for a code
  auth,     \* chats with an auth token
  turn,     \* turn[c]: where the turn of chat c is
  entered,  \* history: entered[c] is the set of codes that were accepted in chat c
  faults

vars == <<account, start, tokens, recent, link, setup, asked, auth, turn, entered, faults>>
sessions == <<link, setup, asked, auth>>

Tokens == [user : Accounts, to : Addresses, used : BOOLEAN, expired : BOOLEAN,
           attempts : Nat, tried : Nat]  \* tried: history, how often the hash was compared

Links == [state : {"name", "role", "confirm"}, email : Addresses]
           \cup [state : {"code"}, user : Accounts]

Goals == {"link", "signup", "setup", "secure"}
Stages == {"ask", "void", "make", "mail", "note", "look", "burn", "count", "compare", "use", "act", "settle"}

Turns == [pc : Stages, goal : Goals, user : Accounts, to : Addresses \cup {None},
          typed : Nat, tok : Nat]  \* typed: which code was sent, 0 for a wrong one

TypeOK ==
  /\ account \in [Accounts -> AccountRows] /\ start \in Starts
  /\ tokens \in Seq(Tokens)
  /\ recent \subseteq Accounts
  /\ link \in [Chats -> Links \cup {None}]
  /\ setup \in [Accounts -> Addresses \cup {None}]
  /\ asked \subseteq Chats /\ auth \subseteq Chats
  /\ turn \in [Chats -> Turns \cup {None}]
  /\ entered \in [Chats -> SUBSET (1..Len(tokens))]
  /\ faults \in Nat

Init ==
  /\ account \in Starts /\ start = account
  /\ tokens = <<>> /\ recent = {}
  /\ link = [c \in Chats |-> None]
  /\ setup = [a \in Accounts |-> None]
  /\ asked = {} /\ auth = {}
  /\ turn = [c \in Chats |-> None]
  /\ entered = [c \in Chats |-> {}]
  /\ faults = 0

-----------------------------------------------------------------------------
(* What a message starts *)

Idle(c) == turn[c] = None

\* resolve_identity: the account this chat is bound to.
Known(c) == {a \in Accounts : account[a].made /\ account[a].chat = c}

\* find_unlinked_user_by_email: no chat yet, or one of the other kind.
MayMove(a, c) == account[a].chat = None \/ Kind[account[a].chat] # Kind[c]
Unlinked(e, c) == {a \in Accounts : account[a].made /\ account[a].email = e /\ MayMove(a, c)}

Begin(c, pc, goal, a, to, typed) ==
  turn' = [turn EXCEPT ![c] =
    [pc |-> pc, goal |-> goal, user |-> a, to |-> to, typed |-> typed, tok |-> 0]]

InLink(c, states) == Known(c) = {} /\ link[c] # None /\ link[c].state \in states

\* _handle_email_submission: an account to link, or a sign-up, or nothing.
Submit(c, e) ==
  \/ \E a \in Unlinked(e, c) :
       Begin(c, "ask", "link", a, e, 0) /\ UNCHANGED link
  \/ /\ Unlinked(e, c) = {}
     /\ link' = [link EXCEPT ![c] = IF Registers THEN [state |-> "name", email |-> e] ELSE None]
     /\ UNCHANGED turn

\* An address from a chat nobody knows, at the start or as an edit on the sign-up card.
GiveAddress(c, e) ==
  /\ Idle(c)
  /\ Known(c) = {} /\ (link[c] # None => link[c].state = "confirm")
  /\ Submit(c, e)
  /\ UNCHANGED <<account, start, tokens, recent, setup, asked, auth, entered, faults>>

\* Name and role are given; an edit of them changes nothing here.
Fill(c) ==
  /\ Idle(c) /\ InLink(c, {"name", "role"})
  /\ link' = [link EXCEPT ![c].state = IF @ = "name" THEN "role" ELSE "confirm"]
  /\ UNCHANGED <<account, start, tokens, recent, setup, asked, auth, turn, entered, faults>>

\* A yes to the sign-up card: the account is made (org and email are unique) and a code goes to its address.
Register(c) ==
  /\ Idle(c) /\ InLink(c, {"confirm"})
  /\ \A b \in Accounts : account[b].made => account[b].email # link[c].email
  /\ \E a \in Accounts :
       /\ ~account[a].made
       /\ account' = [account EXCEPT ![a] = [made |-> TRUE, email |-> link[c].email, chat |-> None]]
       /\ Begin(c, "ask", "signup", a, link[c].email, 0)
  /\ UNCHANGED <<start, tokens, recent, sessions, entered, faults>>

\* cancel, or the role is no longer offered; a retry word at the code.
Abandon(c) ==
  /\ Idle(c) /\ InLink(c, {"role", "confirm", "code"})
  /\ link' = [link EXCEPT ![c] = None]
  /\ UNCHANGED <<account, start, tokens, recent, setup, asked, auth, turn, entered, faults>>

\* _set_up_email: the address of a person who has a number and none, unless somebody else has it.
SetUpAddress(c, e) ==
  /\ Idle(c)
  /\ \E a \in Known(c) :
       /\ account[a].email = None /\ setup[a] = None
       /\ \A b \in Accounts \ {a} : account[b].made => account[b].email # e
       /\ Begin(c, "ask", "setup", a, e, 0)
  /\ UNCHANGED <<account, start, tokens, recent, sessions, entered, faults>>

\* Mutant: the retry is only a text; the session keeps the earlier address and asks for another at once.
SetUpRetryKept(c) ==
  /\ Idle(c)
  /\ \E a \in Known(c), e \in Addresses :
       /\ account[a].email = None /\ setup[a] # None
       /\ setup' = [setup EXCEPT ![a] = e]
  /\ UNCHANGED <<account, start, tokens, recent, link, asked, auth, turn, entered, faults>>

\* A retry word: the address is asked for again.
SetUpRetry(c) ==
  /\ Idle(c)
  /\ \E a \in Known(c) :
       /\ account[a].email = None /\ setup[a] # None
       /\ setup' = [setup EXCEPT ![a] = None]
  /\ UNCHANGED <<account, start, tokens, recent, link, asked, auth, turn, entered, faults>>

\* Anything from a person whose session ran out, or a retry word at the code: a code is mailed.
Secure(c) ==
  /\ Idle(c) /\ c \notin auth
  /\ \E a \in Known(c) :
       /\ account[a].email # None
       /\ Begin(c, "ask", "secure", a, account[a].email, 0)
  /\ UNCHANGED <<account, start, tokens, recent, sessions, entered, faults>>

\* What the person at chat c may type: a code from the mail she reads, or a wrong number.
Typed(c) == {0} \cup {i \in 1..Len(tokens) : tokens[i].to \in Mailbox[c]}

\* Exactly one number, where a code is waited for.
TypeCode(c) ==
  /\ Idle(c)
  /\ \E typed \in Typed(c) :
       \/ InLink(c, {"code"}) /\ Begin(c, "look", "link", link[c].user, None, typed)
       \/ \E a \in Known(c) :
            \/ account[a].email = None /\ setup[a] # None /\ Begin(c, "look", "setup", a, setup[a], typed)
            \/ account[a].email # None /\ c \notin auth /\ c \in asked
               /\ Begin(c, "look", "secure", a, None, typed)
  /\ UNCHANGED <<account, start, tokens, recent, sessions, entered, faults>>

-----------------------------------------------------------------------------
(* generate_and_send_otp *)

At(c, pc) == turn[c] # None /\ turn[c].pc = pc
Go(c, pc) == turn' = [turn EXCEPT ![c].pc = pc]
Over(c) == turn' = [turn EXCEPT ![c] = None]

\* The last code is looked up: too young, and the person is told to wait.
Ask(c) ==
  /\ At(c, "ask")
  /\ IF turn[c].user \in recent THEN Over(c) ELSE Go(c, "void")
  /\ UNCHANGED <<account, start, tokens, recent, sessions, entered, faults>>

\* Earlier codes are dead.
Void(c) ==
  /\ At(c, "void")
  /\ tokens' = [i \in DOMAIN tokens |->
       IF tokens[i].user = turn[c].user THEN [tokens[i] EXCEPT !.used = TRUE] ELSE tokens[i]]
  /\ Go(c, "make")
  /\ UNCHANGED <<account, start, recent, sessions, entered, faults>>

Make(c) ==
  /\ At(c, "make") /\ Len(tokens) < MaxTokens
  /\ tokens' = Append(tokens, [user |-> turn[c].user, to |-> turn[c].to, used |-> FALSE,
                               expired |-> FALSE, attempts |-> 0, tried |-> 0])
  /\ recent' = recent \cup {turn[c].user}
  /\ Go(c, "mail")
  /\ UNCHANGED <<account, start, sessions, entered, faults>>

Mail(c) ==
  /\ At(c, "mail")
  /\ Go(c, "note")
  /\ UNCHANGED <<account, start, tokens, recent, sessions, entered, faults>>

\* The mail cannot be sent: no session waits for the code; a sign-up is dropped, its account stays.
MailFails(c) ==
  /\ At(c, "mail") /\ faults < MaxFaults
  /\ faults' = faults + 1
  /\ Over(c)
  /\ link' = IF turn[c].goal = "signup" THEN [link EXCEPT ![c] = None] ELSE link
  /\ UNCHANGED <<account, start, tokens, recent, setup, asked, auth, entered>>

\* The session that waits for the code.
Note(c) ==
  /\ At(c, "note")
  /\ LET t == turn[c] IN
     /\ link' = IF t.goal \in {"link", "signup"}
                THEN [link EXCEPT ![c] = [state |-> "code", user |-> t.user]] ELSE link
     /\ setup' = IF t.goal = "setup" THEN [setup EXCEPT ![t.user] = t.to] ELSE setup
     /\ asked' = IF t.goal = "secure" THEN asked \cup {c} ELSE asked
  /\ Over(c)
  /\ UNCHANGED <<account, start, tokens, recent, auth, entered, faults>>

-----------------------------------------------------------------------------
(* verify_otp *)

\* The newest unused code of the account.
Newest(a) ==
  LET live == {i \in 1..Len(tokens) : tokens[i].user = a /\ ~tokens[i].used}
  IN {i \in live : \A j \in live : j <= i}

Spent(i) == tokens[i].attempts >= MaxAttempts

\* The row is read: there is none, its guesses are used up, it has expired, or it is to be compared.
Look(c) ==
  /\ At(c, "look")
  /\ \/ Newest(turn[c].user) = {} /\ Over(c)
     \/ \E i \in Newest(turn[c].user) :
          turn' = [turn EXCEPT ![c] =
            IF Spent(i) THEN [@ EXCEPT !.pc = "burn", !.tok = i]
            ELSE IF tokens[i].expired THEN None
            ELSE [@ EXCEPT !.pc = "count", !.tok = i]]
  /\ UNCHANGED <<account, start, tokens, recent, sessions, entered, faults>>

Burn(c) ==
  /\ At(c, "burn")
  /\ tokens' = [tokens EXCEPT ![turn[c].tok].used = TRUE]
  /\ Over(c)
  /\ UNCHANGED <<account, start, recent, sessions, entered, faults>>

\* The guess is counted before it is compared.
Count(c) ==
  /\ At(c, "count")
  /\ tokens' = [tokens EXCEPT ![turn[c].tok].attempts = @ + 1]
  /\ Go(c, "compare")
  /\ UNCHANGED <<account, start, recent, sessions, entered, faults>>

Compare(c) ==
  /\ At(c, "compare")
  /\ LET i == turn[c].tok IN
     /\ tokens' = [tokens EXCEPT ![i].tried = @ + 1]
     /\ IF turn[c].typed = i /\ ~tokens[i].used THEN Go(c, "use") ELSE Over(c)
  /\ UNCHANGED <<account, start, recent, sessions, entered, faults>>

Use(c) ==
  /\ At(c, "use")
  /\ tokens' = [tokens EXCEPT ![turn[c].tok].used = TRUE]
  /\ entered' = [entered EXCEPT ![c] = @ \cup {turn[c].tok}]
  /\ Go(c, IF turn[c].goal = "secure" THEN "settle" ELSE "act")
  /\ UNCHANGED <<account, start, recent, sessions, faults>>

-----------------------------------------------------------------------------
(* After the right code *)

\* bind_chat_phone: free for a person with no chat or one of the other kind; the number is unique.
Bind(c) ==
  /\ At(c, "act") /\ turn[c].goal = "link"
  /\ IF MayMove(turn[c].user, c) /\ Known(c) = {}
     THEN account' = [account EXCEPT ![turn[c].user].chat = c] /\ Go(c, "settle") /\ UNCHANGED link
     ELSE account' = account /\ Over(c) /\ link' = [link EXCEPT ![c] = None]
  /\ UNCHANGED <<start, tokens, recent, setup, asked, auth, entered, faults>>

\* The address is saved, unless the account has one by now.
SaveAddress(c) ==
  /\ At(c, "act") /\ turn[c].goal = "setup"
  /\ account' = [account EXCEPT ![turn[c].user].email = IF @ = None THEN turn[c].to ELSE @]
  /\ Go(c, "settle")
  /\ UNCHANGED <<start, tokens, recent, sessions, entered, faults>>

\* The session that waited is deleted and the chat has an auth token.
Settle(c) ==
  /\ At(c, "settle")
  /\ auth' = auth \cup {c}
  /\ LET t == turn[c] IN
     /\ link' = IF t.goal = "link" THEN [link EXCEPT ![c] = None] ELSE link
     /\ setup' = IF t.goal = "setup" THEN [setup EXCEPT ![t.user] = None] ELSE setup
     /\ asked' = IF t.goal = "secure" THEN asked \ {c} ELSE asked
  /\ Over(c)
  /\ UNCHANGED <<account, start, tokens, recent, entered, faults>>

-----------------------------------------------------------------------------
(* Time and faults *)

\* A session of Redis runs out.
SessionEnds(c) ==
  \/ link[c] # None /\ link' = [link EXCEPT ![c] = None] /\ UNCHANGED <<setup, asked, auth>>
  \/ \E a \in Known(c) : setup[a] # None /\ setup' = [setup EXCEPT ![a] = None] /\ UNCHANGED <<link, asked, auth>>
  \/ c \in asked /\ asked' = asked \ {c} /\ UNCHANGED <<link, setup, auth>>
  \/ c \in auth /\ auth' = auth \ {c} /\ UNCHANGED <<link, setup, asked>>

Lapse(c) ==
  /\ SessionEnds(c)
  /\ UNCHANGED <<account, start, tokens, recent, turn, entered, faults>>

\* otp_resend_cooldown_seconds and otp_expiry_minutes.
Later(a) ==
  /\ a \in recent
  /\ recent' = recent \ {a}
  /\ UNCHANGED <<account, start, tokens, sessions, turn, entered, faults>>

Expire(i) ==
  /\ ~tokens[i].expired
  /\ tokens' = [tokens EXCEPT ![i].expired = TRUE]
  /\ UNCHANGED <<account, start, recent, sessions, turn, entered, faults>>

\* The turn ends in an exception, or the process dies.
Die(c) ==
  /\ turn[c] # None /\ faults < MaxFaults
  /\ faults' = faults + 1
  /\ Over(c)
  /\ UNCHANGED <<account, start, tokens, recent, sessions, entered>>

Message(c) ==
  \/ \E e \in Addresses : GiveAddress(c, e) \/ SetUpAddress(c, e)
  \/ Fill(c) \/ Register(c) \/ Abandon(c) \/ SetUpRetry(c) \/ Secure(c) \/ TypeCode(c)

Send(c) == Ask(c) \/ Void(c) \/ Make(c) \/ Mail(c) \/ MailFails(c) \/ Note(c)

Verify(c) == Look(c) \/ Burn(c) \/ Count(c) \/ Compare(c) \/ Use(c)

Enter(c) == Bind(c) \/ SaveAddress(c) \/ Settle(c)

Next ==
  \/ \E c \in Chats : Message(c) \/ Send(c) \/ Verify(c) \/ Enter(c) \/ Lapse(c) \/ Die(c)
  \/ \E a \in Accounts : Later(a)
  \/ \E i \in 1..Len(tokens) : Expire(i)

Spec == Init /\ [][Next]_vars

-----------------------------------------------------------------------------
(* What must hold *)

\* A chat is only bound to an account, and an address only saved on one, by somebody who gave a code there
\* that was mailed for that account to that address.  Codes are per account and not per purpose or chat, and
\* the sessions that remember what a code was for run out and are replaced on their own.
KnownByCode ==
  \A a \in Accounts : LET now == account[a] IN
    now # start[a] /\ now.chat # None /\ now.email # None =>
      \E i \in entered[now.chat] : tokens[i].user = a /\ tokens[i].to = now.email

\* Every comparison of a code was counted before, and no code is compared more often than its attempts allow,
\* but for the turns that read the count at the same time.
GuessesAreCounted ==
  \A i \in 1..Len(tokens) :
    /\ tokens[i].tried <= tokens[i].attempts
    /\ tokens[i].attempts <= MaxAttempts + Cardinality(Chats) - 1

=============================================================================
