SPECIFICATION FairSpec
CONSTANTS
    reg1 = reg1
    reg2 = reg2
    log1 = log1
    Requests <- MCRequests
    Forms <- MCForms
    Max = 2
    Window = 3
    Delay = 1
    MaxClock = 5
    MaxFailures = 2
INVARIANTS
    TypeOK
    NoBurst
    UniqueAccounts
    RefusalIsEarned
PROPERTIES
    Answered
CHECK_DEADLOCK FALSE
