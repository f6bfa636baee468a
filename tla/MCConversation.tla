-------------------------- MODULE MCConversation --------------------------
EXTENDS Conversation, TLC
CONSTANTS first, second, s1, s2, s3
Alike == Permutations({first, second}) \cup Permutations({s1, s2, s3})
=============================================================================
