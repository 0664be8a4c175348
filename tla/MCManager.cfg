SPECIFICATION FairSpec
CONSTANTS
    p1 = p1
    p2 = p2
    Processes = {p1, p2}
    FlagChoices <- MCFlagChoices
    ReplyDelay = 2
    MaxExits = 2
INVARIANT OneActive
INVARIANT LeaseInv
PROPERTY SomeoneActive
CHECK_DEADLOCK FALSE
