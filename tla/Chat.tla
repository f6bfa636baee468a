-------------------------------- MODULE Chat --------------------------------
(***************************************************************************)
(* The two parts of a message's way through routers/webhook.py, side by    *)
(* side: the chat of a person who is known (Conversation), and a chat that *)
(* is not yet linked to an account, or whose account has no address        *)
(* (FrontDoor).  They share no state.                                      *)
(***************************************************************************)
EXTENDS Conversation

CONSTANTS
  Chats, Kind, Accounts, Addresses, Mailbox, Starts, Registers, MaxAttempts,
  MaxTokens, MaxFaults    \* bounds: those of FrontDoor

VARIABLES account, start, tokens, recent, link, setup, asked, auth, turn, entered, faults

ofDoor == <<account, start, tokens, recent, link, setup, asked, auth, turn, entered, faults>>

Door == INSTANCE FrontDoor

ASSUME DoorGiven == Door!Given

\* A chat is linked, and an address saved, only by someone who gave a code mailed for that account, and a code is
\* compared at most as often as it has attempts, but for the guesses that were under way together.
KnownByCode == Door!KnownByCode /\ Door!GuessesAreCounted
=============================================================================
