SPECIFICATION Spec
CONSTANTS
    c1 = c1
    k1 = k1
    o1 = o1
    n1 = n1
    n2 = n2
    none = none
    Chats = {c1}
    Terminals = {k1}
    OwnSession <- MCOwnSession
    NoSession = none
    Sessions = {o1, n1, n2}
    Turns = {c1, k1}
    Sizes = {1, 4}
    RecentBudget = 3
    HistoryLimit = 2
    MessageLimit = 2
    FactLimit = 2
    Importances = {1, 2}
    MaxMessages = 4
    MaxFacts = 3
CHECK_DEADLOCK FALSE
SYMMETRY Symmetry
INVARIANTS
    ChatsStayApart
    NoHoles
    OnlyBetterReplaces
PROPERTIES
    FreshIsUsed
    TaskSurvives
