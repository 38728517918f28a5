SPECIFICATION FairSpec
CONSTANTS
    c1 = c1  c2 = c2  t1 = t1  t2 = t2
    Chats = {c1}
    Tokens = {t1, t2}
    NoToken = NoToken
    Empty = Empty  Torn = Torn
    MaxEdits = 2
    MaxUpdates = 2
    MaxStops = 1
INVARIANTS EditsAddUp NothingIsSkipped
PROPERTIES OnlyAdmittedChats EditsTakeEffect
