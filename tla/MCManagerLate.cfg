SPECIFICATION Spec
CONSTANTS
    p1 = p1
    p2 = p2
    Processes = {p1, p2}
    FlagChoices <- MCElection
    ReplyDelay = 8
    MaxExits = 0
INVARIANT OneActive
CHECK_DEADLOCK FALSE
