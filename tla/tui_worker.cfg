SPECIFICATION GoodDaemonSpec
CONSTANTS
    MaxMessages <- MCMessages
    MaxPrompts <- MCPrompts
    MaxMenus <- MCMenus
PROPERTIES
    EveryMessageIsAsked
CHECK_DEADLOCK FALSE
