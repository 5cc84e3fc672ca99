SPECIFICATION FlowSpec
CONSTANTS
    r1 = r1
    r2 = r2
    c1 = c1
    c2 = c2
    c3 = c3
    c4 = c4
    ann = ann
    bob = bob
    k1 = k1
    k2 = k2
    None = None
    NoResponse = NoResponse
    Names <- MCNames
    Requests <- MCRequests
    Calls <- MCCalls
    Keys <- MCKeys
    MaxAccounts = 2
    MaxTokens = 3
    MaxExpiries = 2
CONSTRAINT PromptDeletes
INVARIANTS TypeOK RotationIsLinear RevokedFamilyEnds AdministratorExists
           KeysTypeOK AnswersAgree
PROPERTY ImplementsSessions
\* The model stops when its bounds are used up.
CHECK_DEADLOCK FALSE
