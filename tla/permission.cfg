SPECIFICATION FairSpec
CONSTANTS
    full = full
    line = line
    Chats <- MCChats
    Patient <- MCPatient
    RemoteChoices <- MCRemote
    Caps <- MCCaps
    McpCap = "mcp.call"
    PolicyAllow <- MCNone
    PolicyDeny <- MCDeny
    MaxRequests = 2
INVARIANTS
    OnlyApprovedRuns
    AnswersReachTheirPrompt
    AuditOfSettledCalls
PROPERTIES
    KeepsConsent
    PromptIsSettled
    DisconnectEndsTurn
CHECK_DEADLOCK FALSE
