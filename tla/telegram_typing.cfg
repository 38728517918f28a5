SPECIFICATION Spec
CONSTANTS
    c1 = c1
    c2 = c2
    Chats <- MCChat
    MaxUpdates = 2
    MaxPrompts = 1
INVARIANTS
    TypingMeansWorking
CHECK_DEADLOCK FALSE
