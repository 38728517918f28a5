--------------------------- MODULE MCConversations ---------------------------
EXTENDS Conversations, TLC

CONSTANTS c1, k1, o1, n1, n2, none

MCOwnSession == [c \in Chats |-> o1]

Symmetry == Permutations({n1, n2})
=============================================================================
