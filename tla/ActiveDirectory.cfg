SPECIFICATION Spec
CONSTANTS
    short = short
    long = long
    r1 = r1
    r12 = r12
    c1 = c1
    c2 = c2
    c3 = c3
    Accounts <- MCAccounts
    Calls <- ThreeCalls
    Manual <- OneManual
    Registrations <- MCRegistrations
    EmployeeID <- MCEmployeeID
    Contains <- MCContains
    DisabledOuInBase = FALSE
CHECK_DEADLOCK FALSE
INVARIANTS TypeOK AnswersAreTrue
PROPERTIES DisabledIsDescribed MovedIsFinal Promised
