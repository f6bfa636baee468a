------------------------------- MODULE MCChat -------------------------------
(***************************************************************************)
(* The parts of Chat, side by side.  A behaviour is one of one of the two, *)
(* the variables of the other keep their first values.                     *)
(***************************************************************************)
EXTENDS MCConversation, Chat

VARIABLE part

\* A chat on Telegram and one on WhatsApp, and the addresses whose mail the person there reads.
KindOf == "tg" :> "telegram" @@ "wa" :> "whatsapp"
Reads == "tg" :> {"home", "work"} @@ "wa" :> {"work"}

\* An account that has an address and the WhatsApp chat beside one not yet made, and one without an address beside
\* one without a chat.
Row(made, email, chat) == [made |-> made, email |-> email, chat |-> chat]
Tables == {
  "ann" :> Row(TRUE, "home", "wa") @@ "bo" :> Row(FALSE, None, None),
  "ann" :> Row(TRUE, None, "wa") @@ "bo" :> Row(TRUE, "home", None)}

ChatInit ==
  /\ Init /\ Door!Init
  /\ part \in {"door", "chat"}
  /\ part = "chat" => account["ann"].email = "home"
  /\ part = "door" => opened = {}

\* Mails fail and turns die only with the second table, to keep the run short.
ChatNext ==
  /\ UNCHANGED part
  /\ \/ part = "chat" /\ Next /\ UNCHANGED ofDoor
     \/ part = "door" /\ Door!Next /\ (start["ann"].email # None => faults' = 0) /\ UNCHANGED vars

ChatSpec == ChatInit /\ [][ChatNext]_<<part, vars, ofDoor>>
=============================================================================
