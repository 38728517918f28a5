SPECIFICATION Spec
CONSTANTS
    c1 = c1  c2 = c2  t1 = t1  t2 = t2
    Chats = {c1, c2}
    Tokens = {t1}
    NoToken = NoToken
    Empty = Empty  Torn = Torn
    MaxEdits = 2
    MaxUpdates = 1
    MaxStops = 0
INVARIANT EditsSurviveEnrolment
CHECK_DEADLOCK FALSE
