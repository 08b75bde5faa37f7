SPECIFICATION Spec
CONSTANTS
    first = first
    second = second
    other = other
    r1 = r1
    r2 = r2
    r3 = r3
    c1 = c1
    c2 = c2
    Accounts <- MCAccounts
    Calls <- MCCalls
    Registrations <- MCRegistrations
    AlternativeName <- MCAlternativeName
    MaxSaves = 2
CHECK_DEADLOCK FALSE
INVARIANTS TypeOK
PROPERTIES ActivationsStand Promised
