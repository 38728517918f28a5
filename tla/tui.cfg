SPECIFICATION FairSpec
CONSTANTS
    MaxMessages <- MCMessages
    MaxPrompts <- MCPrompts
    MaxMenus <- MCMenus
PROPERTIES
    KeepsConsent
    AskedInOrder
    PromptEnds
CHECK_DEADLOCK FALSE
