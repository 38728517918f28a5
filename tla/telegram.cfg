SPECIFICATION FairSpec
CONSTANTS
    c1 = c1
    c2 = c2
    Chats <- MCChats
    MaxUpdates = 3
    MaxPrompts = 2
INVARIANTS
    HandledInOrder
    ApprovalIsPressed
    OneReplyPerChat
    CancelIsComplete
PROPERTIES
    CancelReturns
CHECK_DEADLOCK FALSE
